---- MODULE Spec2Model ----
(***************************************************************************)
(* Model of the conversation memory of the e-commerce support agent        *)
(* (src/memory/enhanced_memory.py, class EnhancedMemory).                  *)
(*                                                                         *)
(* Strings are modelled as sequences of atoms.  An atom is a TLA+ string   *)
(* standing for an indivisible piece of Python text: a literal of the      *)
(* source, a word of a user message, or the newline "\n" (written NL).     *)
(* String concatenation is \o, str.join is Join, str.split is Split.       *)
(* The Chinese literals of the source are written in pinyin because the    *)
(* module is ASCII; the table below gives the correspondence.              *)
(*                                                                         *)
(*   "duihua zhaiyao:"    summary header            (line 151)             *)
(*   "zhuyao huati:"      key topics prefix         (line 155)             *)
(*   "jinqi taolun:"      recent discussion header  (line 158)             *)
(*   "yonghu xunwen"      "user asked about"        (line 160)             *)
(*   "xiangguan wenti"    "related question"        (line 160)             *)
(*   "dangqian shangxiawen xinxi:"  context header  (line 182)             *)
(*   "zuijin duihua:"     recent dialog header      (line 189)             *)
(*   "yonghu: "           user line prefix          (line 191)             *)
(*   "kefu: "             agent line prefix         (line 192)             *)
(*   "wu lishi duihua jilu"  placeholder            (line 194)             *)
(***************************************************************************)
EXTENDS FiniteSets, Integers, Sequences, TLC

VARIABLES
    max_history,           \* EnhancedMemory.max_history
    summary_threshold,     \* EnhancedMemory.summary_threshold
    dialog_history,        \* EnhancedMemory.dialog_history: list of DialogTurn
    conversation_summary,  \* EnhancedMemory.conversation_summary: string
    current_context,       \* EnhancedMemory.current_context: insertion-ordered dict
    now,                   \* the clock read by datetime.now()
    added,                 \* history variable: the turns appended since construction or the last clear_memory
    last_call,             \* history variable: the method that returned last
    last_args,             \* history variable: the arguments of add_dialog_turn when it returned last
    files,                 \* the file system: what the file at each path holds, if it exists
    sink_writes,           \* history variable: the number of attempts to write a snapshot
    save_returned,         \* history variable: the path and the result of the last auto_save_to_file
    queried,               \* history variable: the query of the memory made last and what it returned
    message,               \* QwenEcommerceAgent: the text handed to _classify_message_type
    classified,            \* QwenEcommerceAgent: how _classify_message_type ended on it
    prompt,                \* history variable: the context_info of the prompt built last, if one was built
    response,              \* history variable: how the Generation.call made last ended, if one was made
    reply,                 \* history variable: how the process_message called last ended
    tools,                 \* MCPManager.tools: insertion-ordered dict, name -> tool object
    enabled_tools,         \* MCPManager.enabled_tools: list of names
    is_enabled,            \* MCPTool.is_enabled of every tool object
    environ,               \* os.environ: the configuration identifiers that are set
    returned,              \* history variable: the MCPManager method called last, its tool name and how it ended
    executed,              \* history variable: how the tool's execute() ended, if the last call reached it
    probed,                \* history variable: how initialize() ended the last time, per tool object
    held                   \* the list object a caller got from the last list query, if it got one

sink_vars == <<files, sink_writes, save_returned>>

memory_vars == <<max_history, summary_threshold, dialog_history, conversation_summary,
                 current_context, now, added, last_call, last_args, sink_vars, queried>>

agent_vars == <<message, classified, prompt, response, reply>>

registry_vars == <<tools, enabled_tools, is_enabled, environ, returned, executed, probed, held>>

vars == <<memory_vars, agent_vars, registry_vars>>

(***************************************************************************)
(* Bounds of the model.                                                    *)
(***************************************************************************)
MaxMaxHistory == 3
MaxSummaryThreshold == 4
\* the number of add_dialog_turn calls of a behaviour, over all configurations
MaxClock == 3
\* the same for the behaviours of the long-conversation specification
LongClock == 4

(***************************************************************************)
(* String helpers.                                                         *)
(***************************************************************************)
NL == "\n"

RECURSIVE Join(_, _)
\* sep.join(parts): parts is a sequence of strings (atom sequences)
Join(parts, sep) ==
    IF parts = <<>> THEN <<>>
    ELSE IF Len(parts) = 1 THEN parts[1]
    ELSE parts[1] \o sep \o Join(Tail(parts), sep)

\* s.split(sep) for a one-atom separator: the pieces between the separators
Split(s, sep) ==
    LET seps == {i \in DOMAIN s : s[i] = sep}
        n == Cardinality(seps)
        \* the position of the j-th separator; 0 and Len(s)+1 fence the ends
        Pos(j) == IF j = 0 THEN 0
                  ELSE IF j = n + 1 THEN Len(s) + 1
                  ELSE CHOOSE p \in seps : Cardinality({q \in seps : q <= p}) = j
    IN [j \in 1..(n + 1) |-> SubSeq(s, Pos(j - 1) + 1, Pos(j) - 1)]

\* str(i) for the small integers the summary enumerates
Str(i) == CASE i = 1 -> "1" [] i = 2 -> "2" [] i = 3 -> "3" [] OTHER -> "n"

\* s[-n:] on a list
LastN(s, n) == IF Len(s) <= n THEN s ELSE SubSeq(s, Len(s) - n + 1, Len(s))

RECURSIVE Orderings(_)
\* all orders in which the elements of a finite set can be listed
Orderings(S) ==
    IF S = {} THEN {<<>>}
    ELSE UNION {{<<x>> \o rest : rest \in Orderings(S \ {x})} : x \in S}

(***************************************************************************)
(* MessageType (enum) and its values.                                      *)
(***************************************************************************)
MessageType == {"USER_QUERY", "PRODUCT_INQUIRY", "ORDER_QUESTION", "AFTER_SALES", "GENERAL_CHAT"}

MessageTypeValue(mt) ==
    CASE mt = "USER_QUERY"      -> "user_query"
      [] mt = "PRODUCT_INQUIRY" -> "product_inquiry"
      [] mt = "ORDER_QUESTION"  -> "order_question"
      [] mt = "AFTER_SALES"     -> "after_sales"
      [] mt = "GENERAL_CHAT"    -> "general_chat"

\* value.replace("_", " ") on the enum values
ReplaceUnderscore(v) ==
    CASE v = "user_query"      -> "user query"
      [] v = "product_inquiry" -> "product inquiry"
      [] v = "order_question"  -> "order question"
      [] v = "after_sales"     -> "after sales"
      [] v = "general_chat"    -> "general chat"

(***************************************************************************)
(* Keyword matching.  A user text is a sequence of word atoms;  `kw in     *)
(* text` is substring containment, which on word atoms is: some word of    *)
(* the text has kw as a substring.                                         *)
(***************************************************************************)
\* pinyin of the keyword tables of lines 50-55
ecommerce_keywords ==
    [product_related   |-> <<"shangpin", "chanpin", "yifu", "xiezi", "dianzichanpin", "jiage", "guige", "chima">>,
     order_related     |-> <<"dingdan", "goumai", "xiadan", "fukuan", "zhifu", "zhangdan">>,
     logistics_related |-> <<"fahuo", "kuaidi", "wuliu", "peisong", "yunshu", "daohuo">>,
     after_sales       |-> <<"tuihuo", "huanhuo", "tuikuan", "shouhou", "baoxiu", "zhiliangwenti">>]

\* kw is a substring of the word w ("chanpin" occurs inside "dianzichanpin")
SubstringOf(kw, w) == kw = w \/ (kw = "chanpin" /\ w = "dianzichanpin")

\* kw in text
In(kw, text) == \E i \in DOMAIN text : SubstringOf(kw, text[i])

\* any(keyword in text for keyword in keywords)
AnyIn(keywords, text) == \E k \in DOMAIN keywords : In(keywords[k], text)

\* str.lower on a word: only the ASCII order numbers have case
LowerWord(w) ==
    CASE w = "AB12345678" -> "ab12345678"
      [] w = "CD87654321" -> "cd87654321"
      [] w = "AB123456" -> "ab123456"
      [] OTHER -> w

Lower(text) == [i \in DOMAIN text |-> LowerWord(text[i])]

\* mutant: the order of the category classifier, after-sales before logistics
_analyze_intent_after_sales_first(user_input) ==
    LET user_input_lower == Lower(user_input) IN
    IF AnyIn(ecommerce_keywords.product_related, user_input_lower) THEN "product_inquiry"
    ELSE IF AnyIn(ecommerce_keywords.order_related, user_input_lower) THEN "order_question"
    ELSE IF AnyIn(ecommerce_keywords.after_sales, user_input_lower) THEN "after_sales"
    ELSE IF AnyIn(ecommerce_keywords.logistics_related, user_input_lower) THEN "logistics_query"
    ELSE "general_inquiry"

\* lines 91-105
_analyze_intent(user_input) ==
    LET user_input_lower == Lower(user_input) IN
    IF AnyIn(ecommerce_keywords.product_related, user_input_lower) THEN "product_inquiry"
    ELSE IF AnyIn(ecommerce_keywords.order_related, user_input_lower) THEN "order_question"
    ELSE IF AnyIn(ecommerce_keywords.logistics_related, user_input_lower) THEN "logistics_query"
    ELSE IF AnyIn(ecommerce_keywords.after_sales, user_input_lower) THEN "after_sales"
    ELSE "general_inquiry"

(***************************************************************************)
(* Python dicts: a sequence of <<key, value>> pairs in insertion order.    *)
(***************************************************************************)
DictKeys(d) == {d[i][1] : i \in DOMAIN d}

\* d[key] = value: an existing key keeps its position, a new key goes last
DictSet(d, key, value) ==
    IF key \in DictKeys(d)
    THEN [i \in DOMAIN d |-> IF d[i][1] = key THEN <<key, value>> ELSE d[i]]
    ELSE Append(d, <<key, value>>)

\* f"{value}" of a dict of strings: {'k1': 'v1', 'k2': 'v2'}
DictRepr(d) ==
    <<"{">> \o Join([i \in DOMAIN d |-> <<"'", d[i][1], "': '">> \o d[i][2] \o <<"'">>], <<", ">>) \o <<"}">>

(***************************************************************************)
(* Context extraction.  Optional[...] is a set with at most one element.   *)
(***************************************************************************)
None == {}

product_keywords == <<"yifu", "xiezi", "shouji", "diannao", "huazhuangpin">>

_extract_product_info(text) ==
    LET hits == {k \in DOMAIN product_keywords : In(product_keywords[k], text)} IN
    IF hits = {} THEN None
    ELSE LET keyword == product_keywords[CHOOSE k \in hits : \A j \in hits : k <= j]
         IN {<< <<"product_type", <<keyword>> >>, <<"query", text>> >>}

\* the match of [A-Z0-9]{10,} inside a word, if any: the words of the model
\* that carry an order number are two of 10 characters and one of 8
OrderPatternMatch(w) ==
    CASE w = "AB12345678" -> {"AB12345678"}
      [] w = "CD87654321" -> {"CD87654321"}
      [] w = "AB123456" -> {}
      [] OTHER -> {}

_extract_order_info(text) ==
    LET hits == {i \in DOMAIN text : OrderPatternMatch(text[i]) # {}} IN
    IF hits = {} THEN None
    ELSE LET first == CHOOSE i \in hits : \A j \in hits : i <= j
             order_id == CHOOSE m \in OrderPatternMatch(text[first]) : TRUE
         IN {<< <<"order_id", <<order_id>> >>, <<"query", text>> >>}

\* mutant: the extraction tried whatever the category of the turn
_update_context_any_category(context, turn) ==
    LET product_info == _extract_product_info(turn.user_input)
        order_info == _extract_order_info(turn.user_input)
    IN IF product_info # None
       THEN DictSet(context, "current_product", CHOOSE v \in product_info : TRUE)
       ELSE IF order_info # None
       THEN DictSet(context, "current_order", CHOOSE v \in order_info : TRUE)
       ELSE context

\* mutant: dict.setdefault, a key that holds a record keeps it
_update_context_setdefault(context, turn) ==
    IF turn.message_type = "PRODUCT_INQUIRY" THEN
        LET product_info == _extract_product_info(turn.user_input) IN
        IF product_info # None /\ "current_product" \notin DictKeys(context)
        THEN DictSet(context, "current_product", CHOOSE v \in product_info : TRUE)
        ELSE context
    ELSE IF turn.message_type = "ORDER_QUESTION" THEN
        LET order_info == _extract_order_info(turn.user_input) IN
        IF order_info # None /\ "current_order" \notin DictKeys(context)
        THEN DictSet(context, "current_order", CHOOSE v \in order_info : TRUE)
        ELSE context
    ELSE context

_update_context(context, turn) ==
    IF turn.message_type = "PRODUCT_INQUIRY" THEN
        LET product_info == _extract_product_info(turn.user_input) IN
        IF product_info # None
        THEN DictSet(context, "current_product", CHOOSE v \in product_info : TRUE)
        ELSE context
    ELSE IF turn.message_type = "ORDER_QUESTION" THEN
        LET order_info == _extract_order_info(turn.user_input) IN
        IF order_info # None
        THEN DictSet(context, "current_order", CHOOSE v \in order_info : TRUE)
        ELSE context
    ELSE context

(***************************************************************************)
(* Summary generation.                                                     *)
(***************************************************************************)
\* mutant: USER_QUERY is filtered out together with GENERAL_CHAT
_extract_key_topics_skip_user_query(history) ==
    Orderings({ReplaceUnderscore(MessageTypeValue(history[i].message_type)) :
                  i \in {j \in DOMAIN history : history[j].message_type \notin {"GENERAL_CHAT", "USER_QUERY"}}})

\* list(topics): the set of topic names, in any of the orders set iteration can give
_extract_key_topics(history) ==
    Orderings({ReplaceUnderscore(MessageTypeValue(history[i].message_type)) :
                  i \in {j \in DOMAIN history : history[j].message_type # "GENERAL_CHAT"}})

\* the lines of a freshly generated summary (summary_parts, lines 150-160)
SummaryParts(history, key_topics) ==
    LET recent_turns == LastN(history, 3)
        topic_part == IF key_topics # <<>>
                      THEN << <<"zhuyao huati:">> \o Join([i \in DOMAIN key_topics |-> <<key_topics[i]>>], <<", ">>) >>
                      ELSE <<>>
        recent_part == [i \in DOMAIN recent_turns |->
                          <<Str(i), ". ", "yonghu xunwen", recent_turns[i].intent, "xiangguan wenti">>]
    IN << <<"duihua zhaiyao:">> >> \o topic_part \o << <<"jinqi taolun:">> >> \o recent_part

\* mutant: the new text is appended to the previous summary
_generate_summary_merge(history, summary, key_topics) ==
    IF Len(history) < 2 THEN summary
    ELSE IF summary = <<>> THEN Join(SummaryParts(history, key_topics), <<NL>>)
    ELSE summary \o <<NL>> \o Join(SummaryParts(history, key_topics), <<NL>>)

\* mutant: no early return for a history of fewer than 2 turns
_generate_summary_no_guard(history, summary, key_topics) ==
    Join(SummaryParts(history, key_topics), <<NL>>)

\* the value of conversation_summary after _generate_summary()
_generate_summary(history, summary, key_topics) ==
    IF Len(history) < 2 THEN summary
    ELSE Join(SummaryParts(history, key_topics), <<NL>>)

(***************************************************************************)
(* Queries.                                                                *)
(***************************************************************************)
Placeholder == <<"wu lishi duihua jilu">>

\* mutant: the recent turns are emitted whenever there is history
ShowRecent_always(summary, history) == history # <<>>

\* line 187: not self.conversation_summary and self.dialog_history
ShowRecent(summary, history) == summary = <<>> /\ history # <<>>

\* mutant: the first two turns instead of the last two
RecentHistory_first(history) == IF Len(history) <= 2 THEN history ELSE SubSeq(history, 1, 2)

\* line 188: self.dialog_history[-2:]
RecentHistory(history) == LastN(history, 2)

RECURSIVE TurnLines(_)
\* lines 190-192: a user line and an agent line per turn
TurnLines(turns) ==
    IF turns = <<>> THEN <<>>
    ELSE << <<"yonghu: ">> \o turns[1].user_input, <<"kefu: ">> \o turns[1].ai_response >>
         \o TurnLines(Tail(turns))

get_context_for_prompt(history, summary, context) ==
    LET summary_part == IF summary # <<>> THEN <<summary>> ELSE <<>>
        context_part == IF context # <<>>
                        THEN << <<"dangqian shangxiawen xinxi:">> >> \o
                             [i \in DOMAIN context |-> <<"- ", context[i][1], ": ">> \o DictRepr(context[i][2])]
                        ELSE <<>>
        recent_part == IF ShowRecent(summary, history)
                       THEN << <<"zuijin duihua:">> >> \o TurnLines(RecentHistory(history))
                       ELSE <<>>
        context_parts == summary_part \o context_part \o recent_part
    IN IF context_parts # <<>> THEN Join(context_parts, <<NL>>) ELSE Placeholder

\* get_context_for_prompt() on the current memory
ContextForPrompt == get_context_for_prompt(dialog_history, conversation_summary, current_context)

(***************************************************************************)
(* The calls the caller makes: (user_input, ai_response, message_type,     *)
(* key_entities) of add_dialog_turn.  key_entities is Optional.            *)
(***************************************************************************)
Calls ==
    { [user_input |-> <<"nihao">>, ai_response |-> <<"nin hao">>,
       message_type |-> "GENERAL_CHAT", key_entities |-> None],
      [user_input |-> <<"yifu", "jiage">>, ai_response |-> <<"99 yuan">>,
       message_type |-> "PRODUCT_INQUIRY", key_entities |-> {<<>>}],
      [user_input |-> <<"xiezi">>, ai_response |-> <<"you huo">>,
       message_type |-> "PRODUCT_INQUIRY", key_entities |-> {<<"shangpin:xiezi">>}],
      [user_input |-> <<"dingdan", "AB12345678">>, ai_response |-> <<"yi fahuo">>,
       message_type |-> "ORDER_QUESTION", key_entities |-> {<<"dingdanhao:AB12345678">>}],
      [user_input |-> <<"kuaidi", "tuihuo">>, ai_response |-> <<"keyi tuihuo">>,
       message_type |-> "AFTER_SALES", key_entities |-> None],
      [user_input |-> <<"shouji">>, ai_response |-> <<"nin hao">>,
       message_type |-> "USER_QUERY", key_entities |-> {<<"shangpin:shouji">>}] }

\* key_entities or []
OrEmptyList(opt) == IF opt = None THEN <<>> ELSE CHOOSE l \in opt : TRUE

(***************************************************************************)
(* The MCP tools.  The tool objects of the program: the LogisticsMCPTool   *)
(* and the AliyunOCRMCPTool made when their modules are imported, and the  *)
(* second AliyunOCRMCPTool that initialize_system makes and registers      *)
(* under the same name.                                                    *)
(***************************************************************************)
ToolObjects == {"logistics_tool", "ocr_tool", "ocr_tool_main"}

ToolClass(tool) == IF tool = "logistics_tool" THEN "LogisticsMCPTool" ELSE "AliyunOCRMCPTool"

\* tool.name
ToolName(tool) == IF ToolClass(tool) = "LogisticsMCPTool" THEN "logistics_tracker" ELSE "aliyun_ocr"

\* tool.required_env_vars
required_env_vars(tool) ==
    IF ToolClass(tool) = "LogisticsMCPTool" THEN <<"LOGISTICS_APP_CODE">> ELSE <<"ALIYUN_IMAGE_APP_CODE">>

\* the configuration identifiers the tools ask for
EnvVars == {"LOGISTICS_APP_CODE", "ALIYUN_IMAGE_APP_CODE"}

\* the names a caller passes: the two registered names and one of no tool
ToolNames == {"logistics_tracker", "aliyun_ocr", "weather"}

\* MCPTool.check_permissions: no required variable is unset or empty
check_permissions(tool, env) ==
    LET missing_vars == {i \in DOMAIN required_env_vars(tool) : required_env_vars(tool)[i] \notin env}
    IN missing_vars = {}

\* LogisticsMCPTool.initialize: the results it can return.  A missing
\* variable is reported and True returned all the same
LogisticsMCPTool_initialize(tool, env) == {TRUE}

\* mutant: the OCR tool probes the service without looking at its configuration
AliyunOCRMCPTool_initialize_unchecked(tool, env) == {TRUE, FALSE}

\* AliyunOCRMCPTool.initialize: False on a missing variable, otherwise what
\* the connection test gives
AliyunOCRMCPTool_initialize(tool, env) ==
    IF ~check_permissions(tool, env) THEN {FALSE} ELSE {TRUE, FALSE}

\* tool.initialize()
initialize(tool, env) ==
    IF ToolClass(tool) = "LogisticsMCPTool"
    THEN LogisticsMCPTool_initialize(tool, env)
    ELSE AliyunOCRMCPTool_initialize(tool, env)

(***************************************************************************)
(* The parts of the program a memory-only behaviour leaves untouched: no   *)
(* message classified yet, and the MCPManager as constructed.              *)
(***************************************************************************)
AgentIdle ==
    /\ message = <<>>
    /\ classified = None
    /\ prompt = None
    /\ response = None
    /\ reply = None

\* the paths auto_save_to_file is called with: the default one under
\* ./backup and one the caller names
SavePaths == {"backup/memory_backup.json", "session.json"}

\* no snapshot written yet
SinkNew ==
    /\ files = [path \in SavePaths |-> None]
    /\ sink_writes = 0
    /\ save_returned = None

\* MCPManager() and the tool objects as constructed: nothing registered, no
\* tool enabled, no method called yet
RegistryNew ==
    /\ tools = <<>>
    /\ enabled_tools = <<>>
    /\ is_enabled = [tool \in ToolObjects |-> FALSE]
    /\ returned = None
    /\ executed = None
    /\ probed = [tool \in ToolObjects |-> "never"]
    /\ held = None

RegistryIdle ==
    /\ RegistryNew
    /\ environ = {}

(***************************************************************************)
(* State machine.                                                          *)
(***************************************************************************)
Init ==
    /\ max_history \in 0..MaxMaxHistory
    /\ summary_threshold \in 0..MaxSummaryThreshold
    /\ dialog_history = <<>>
    /\ conversation_summary = <<>>
    /\ current_context = <<>>
    /\ now = 0
    /\ added = <<>>
    /\ last_call = "__init__"
    /\ last_args = None
    /\ SinkNew
    /\ queried = None
    /\ AgentIdle
    /\ RegistryIdle

\* mutant: the intent is taken from the message_type argument
NewTurn_intent_of_type(c) ==
    [user_input   |-> c.user_input,
     ai_response  |-> c.ai_response,
     timestamp    |-> now,
     message_type |-> c.message_type,
     key_entities |-> OrEmptyList(c.key_entities),
     intent       |-> MessageTypeValue(c.message_type)]

\* DialogTurn(...) as built at lines 69-76
NewTurn(c) ==
    [user_input   |-> c.user_input,
     ai_response  |-> c.ai_response,
     timestamp    |-> now,
     message_type |-> c.message_type,
     key_entities |-> OrEmptyList(c.key_entities),
     intent       |-> _analyze_intent(c.user_input)]

\* mutant: the bound is checked one turn too late
EvictOldest_late(history, bound) ==
    IF Len(history) > bound + 1 THEN Tail(history) ELSE history

\* mutant: the history is never cut
EvictOldest_never(history, bound) == history

\* mutant: pop() instead of pop(0)
EvictOldest_newest(history, bound) ==
    IF Len(history) > bound THEN SubSeq(history, 1, Len(history) - 1) ELSE history

\* lines 84-85: drop the oldest turn when the list is over the bound
EvictOldest(history, bound) ==
    IF Len(history) > bound THEN Tail(history) ELSE history

\* mutant: a summary made when the threshold is reached and not after
NeedsSummary_once(history, threshold) == Len(history) = threshold

\* mutant: > instead of >=
NeedsSummary_strict(history, threshold) == Len(history) > threshold

\* line 88: len(self.dialog_history) >= self.summary_threshold
NeedsSummary(history, threshold) == Len(history) >= threshold

add_dialog_turn(c) ==
    LET turn == NewTurn(c)
        history == EvictOldest(Append(dialog_history, turn), max_history)
    IN /\ now' = now + 1
       /\ dialog_history' = history
       /\ current_context' = _update_context(current_context, turn)
       /\ IF NeedsSummary(history, summary_threshold)
          THEN \E key_topics \in _extract_key_topics(history) :
                   conversation_summary' = _generate_summary(history, conversation_summary, key_topics)
          ELSE UNCHANGED conversation_summary
       /\ added' = Append(added, turn)
       /\ last_call' = "add_dialog_turn"
       /\ last_args' = {c}
       /\ UNCHANGED <<max_history, summary_threshold, sink_vars, queried>>

\* mutant: current_context is not cleared
clear_memory_keeps_context ==
    /\ dialog_history' = <<>>
    /\ conversation_summary' = <<>>
    /\ added' = <<>>
    /\ last_call' = "clear_memory"
    /\ last_args' = None
    /\ UNCHANGED <<max_history, summary_threshold, now, current_context, sink_vars, queried, agent_vars, registry_vars>>

clear_memory ==
    /\ dialog_history' = <<>>
    /\ conversation_summary' = <<>>
    /\ current_context' = <<>>
    /\ added' = <<>>
    /\ last_call' = "clear_memory"
    /\ last_args' = None
    /\ UNCHANGED <<max_history, summary_threshold, now, sink_vars, queried, agent_vars, registry_vars>>

AddDialogTurn ==
    /\ now < MaxClock
    /\ \E c \in Calls : add_dialog_turn(c)
    /\ UNCHANGED <<agent_vars, registry_vars>>

Next == AddDialogTurn \/ clear_memory

\* every configuration within the bounds, conversations of up to MaxClock turns
Spec == Init /\ [][Next]_vars

(***************************************************************************)
(* Long conversations: EnhancedMemory(3, 2) and EnhancedMemory(4, 2), the  *)
(* memories that summarise from the second turn on and evict at the fourth *)
(* or fifth, with conversations of up to LongClock turns.                  *)
(***************************************************************************)
InitLong ==
    /\ max_history \in {3, 4}
    /\ summary_threshold = 2
    /\ dialog_history = <<>>
    /\ conversation_summary = <<>>
    /\ current_context = <<>>
    /\ now = 0
    /\ added = <<>>
    /\ last_call = "__init__"
    /\ last_args = None
    /\ SinkNew
    /\ queried = None
    /\ AgentIdle
    /\ RegistryIdle

AddDialogTurnLong ==
    /\ now < LongClock
    /\ \E c \in Calls : add_dialog_turn(c)
    /\ UNCHANGED <<agent_vars, registry_vars>>

NextLong == AddDialogTurnLong \/ clear_memory

SpecLong == InitLong /\ [][NextLong]_vars

(***************************************************************************)
(* The memory of the agent, EnhancedMemory(max_history=8,                  *)
(* summary_threshold=4), called with every pairing of a text and a         *)
(* category: texts that name a product or carry an order number and texts  *)
(* that do not, each under a category that fits it and under ones that do  *)
(* not.                                                                    *)
(***************************************************************************)
TurnClock == 2

TurnTexts ==
    { <<"yifu", "jiage">>, <<"xiezi">>, <<"jiage">>,
      <<"dingdan", "AB12345678">>, <<"dingdan", "CD87654321">>, <<"dingdan", "AB123456">> }

TurnCalls ==
    { [user_input |-> text, ai_response |-> <<"hao de">>, message_type |-> mt, key_entities |-> None] :
          text \in TurnTexts, mt \in {"PRODUCT_INQUIRY", "ORDER_QUESTION", "GENERAL_CHAT"} }

InitTurns ==
    /\ max_history = 8
    /\ summary_threshold = 4
    /\ dialog_history = <<>>
    /\ conversation_summary = <<>>
    /\ current_context = <<>>
    /\ now = 0
    /\ added = <<>>
    /\ last_call = "__init__"
    /\ last_args = None
    /\ SinkNew
    /\ queried = None
    /\ AgentIdle
    /\ RegistryIdle

AddDialogTurnTurns ==
    /\ now < TurnClock
    /\ \E c \in TurnCalls : add_dialog_turn(c)
    /\ UNCHANGED <<agent_vars, registry_vars>>

NextTurns == AddDialogTurnTurns \/ clear_memory

SpecTurns == InitTurns /\ [][NextTurns]_vars

(***************************************************************************)
(* The memories whose text is exported: EnhancedMemory(3, 2), which has a  *)
(* summary from the second turn on, with conversations of up to            *)
(* ExportClock turns.                                                      *)
(***************************************************************************)
ExportClock == 3

InitExport ==
    /\ max_history = 3
    /\ summary_threshold = 2
    /\ dialog_history = <<>>
    /\ conversation_summary = <<>>
    /\ current_context = <<>>
    /\ now = 0
    /\ added = <<>>
    /\ last_call = "__init__"
    /\ last_args = None
    /\ SinkNew
    /\ queried = None
    /\ AgentIdle
    /\ RegistryIdle

AddDialogTurnExport ==
    /\ now < ExportClock
    /\ \E c \in Calls : add_dialog_turn(c)
    /\ UNCHANGED <<agent_vars, registry_vars>>

NextExport == AddDialogTurnExport \/ clear_memory

SpecExport == InitExport /\ [][NextExport]_vars

(***************************************************************************)
(* Reading a generated text back: its lines, and what the lines say.       *)
(***************************************************************************)
Range(s) == {s[i] : i \in DOMAIN s}

Min(a, b) == IF a <= b THEN a ELSE b

TopicName(mt) == ReplaceUnderscore(MessageTypeValue(mt))

\* the topics listed on the key-topics line of a summary text
TopicsOf(summary) ==
    LET IsTopicLine(l) == l # <<>> /\ l[1] = "zhuyao huati:"
        topic_lines == SelectSeq(Split(summary, NL), IsTopicLine)
    IN IF topic_lines = <<>> THEN {}
       ELSE {topic_lines[1][i] : i \in 2..Len(topic_lines[1])} \ {", "}

\* the raw-turn lines (user and agent lines) of a prompt context
RawLinesOf(text) ==
    LET IsRaw(l) == l # <<>> /\ l[1] \in {"yonghu: ", "kefu: "}
    IN SelectSeq(Split(text, NL), IsRaw)

\* the lines that list one context entry each
ContextLinesOf(text) ==
    LET IsEntry(l) == l # <<>> /\ l[1] = "- "
    IN SelectSeq(Split(text, NL), IsEntry)

(***************************************************************************)
(* Properties of the conversation memory.                                  *)
(***************************************************************************)

\* C1: for every max_history >= 0, after every add_dialog_turn and
\* clear_memory call the history holds at most max_history turns.
C1_HistoryBounded == Len(dialog_history) <= max_history

\* C1 witness: an add on a full history has evicted a turn
C1_Witness ==
    /\ last_call = "add_dialog_turn"
    /\ max_history >= 1
    /\ Len(added) > max_history
    /\ Len(dialog_history) = max_history

\* C2: eviction is FIFO and turns are never altered: the history is exactly
\* the last min(n, max_history) of the n turns added since the last
\* clear_memory, in the order added, every field as it was when appended.
C2_FifoUnaltered == dialog_history = LastN(added, Min(Len(added), max_history))

\* C2 witness: two turns are retained after one or more were evicted
C2_Witness ==
    /\ max_history = 2
    /\ Len(added) >= 3
    /\ dialog_history = <<added[Len(added) - 1], added[Len(added)]>>
    /\ added[Len(added) - 1].user_input # added[Len(added)].user_input

\* C3 as stated: for every configuration, after an add_dialog_turn call,
\* len(dialog_history) >= summary_threshold implies a non-empty summary.
C3_Original ==
    (last_call = "add_dialog_turn" /\ Len(dialog_history) >= summary_threshold)
        => conversation_summary # <<>>

\* C3 amended: after an add_dialog_turn call, a history of at least
\* summary_threshold turns and at least 2 turns implies a non-empty summary.
C3_SummaryPresent ==
    (last_call = "add_dialog_turn" /\ Len(dialog_history) >= summary_threshold
                                   /\ Len(dialog_history) >= 2)
        => conversation_summary # <<>>

\* C3 witness: the add that brings the history to the threshold has generated a summary
C3_Witness ==
    /\ last_call = "add_dialog_turn"
    /\ summary_threshold >= 2
    /\ Len(dialog_history) = summary_threshold
    /\ conversation_summary # <<>>

\* the scenario of C4: max_history=3, summary_threshold=2, four turns added,
\* their categories four distinct non-general ones
C4_Scenario ==
    /\ max_history = 3
    /\ summary_threshold = 2
    /\ Len(added) = 4
    /\ Cardinality({added[i].message_type : i \in 1..4}) = 4
    /\ \A i \in 1..4 : added[i].message_type # "GENERAL_CHAT"

\* C4 as stated: in the scenario 3 turns are retained and the key-topics line
\* lists all 4 categories seen, the one of the evicted turn included.
C4_Original ==
    C4_Scenario =>
        /\ Len(dialog_history) = 3
        /\ {TopicName(added[i].message_type) : i \in 1..4} \subseteq TopicsOf(conversation_summary)

\* C4 amended: key topics are computed over the retained history only: in the
\* scenario 3 turns are retained and the key-topics line lists exactly the 3
\* categories of the retained turns, not the one of the evicted first turn.
C4_TopicsOfRetained ==
    C4_Scenario =>
        /\ Len(dialog_history) = 3
        /\ TopicsOf(conversation_summary) = {TopicName(added[i].message_type) : i \in 2..4}
        /\ TopicName(added[1].message_type) \notin TopicsOf(conversation_summary)

\* C4 witness: the scenario, with three topics on the key-topics line
C4_Witness ==
    /\ C4_Scenario
    /\ Cardinality(TopicsOf(conversation_summary)) = 3

\* a step in which an add_dialog_turn call is made and returns: the only
\* step that reads the clock
AddStep == last_call' = "add_dialog_turn" /\ now' = now + 1

\* the topics of the key-topics line of a summary text, in the order listed
TopicListOf(summary) ==
    LET IsTopicLine(l) == l # <<>> /\ l[1] = "zhuyao huati:"
        IsTopic(a) == a # ", "
        topic_lines == SelectSeq(Split(summary, NL), IsTopicLine)
    IN IF topic_lines = <<>> THEN <<>> ELSE SelectSeq(Tail(topic_lines[1]), IsTopic)

\* summary is a text _generate_summary produces for a history of 2 or more
\* turns: the text generated for its own topic list, that list being the
\* distinct non-general categories of the history in some order
IsGeneratedFrom(summary, history) ==
    LET key_topics == TopicListOf(summary)
    IN /\ summary = Join(SummaryParts(history, key_topics), <<NL>>)
       /\ Len(key_topics) = Cardinality(Range(key_topics))
       /\ Range(key_topics) = {TopicName(history[i].message_type) :
                                  i \in {j \in DOMAIN history : history[j].message_type # "GENERAL_CHAT"}}

\* C5 as stated: once len(dialog_history) >= summary_threshold, every
\* add_dialog_turn call changes the value of conversation_summary (stated for
\* the calls made when a summary exists already, so that histories too short
\* to be summarised play no part).
C5_Original ==
    [][(AddStep /\ Len(dialog_history) >= summary_threshold /\ conversation_summary # <<>>)
          => conversation_summary' # conversation_summary]_vars

\* the length the history had before the last add_dialog_turn call
LenBeforeLastAdd == Min(Len(added) - 1, max_history)

\* C5 amended: once len(dialog_history) >= summary_threshold, every
\* add_dialog_turn call that leaves 2 or more turns in the history sets
\* conversation_summary to a non-empty summary generated from the history
\* after the call; the value may be the same as before the call.
C5_Regenerated ==
    (last_call = "add_dialog_turn" /\ LenBeforeLastAdd >= summary_threshold
                                   /\ Len(dialog_history) >= 2)
        => /\ conversation_summary # <<>>
           /\ IsGeneratedFrom(conversation_summary, dialog_history)

\* C5 witness: an add made with the threshold already reached, summary regenerated
C5_Witness ==
    /\ last_call = "add_dialog_turn"
    /\ summary_threshold = 2
    /\ max_history >= 2
    /\ Len(added) >= 3
    /\ LenBeforeLastAdd >= summary_threshold
    /\ IsGeneratedFrom(conversation_summary, dialog_history)

\* the lines a summary of `history` must consist of, read from the text:
\* the header, the key-topics line iff a retained turn has a non-general
\* category, the recent header, then one numbered line per turn of the last
\* min(3, len) turns with that turn's intent, and nothing else
SummaryReflects(summary, history) ==
    LET lines == Split(summary, NL)
        has_topics == \E i \in DOMAIN history : history[i].message_type # "GENERAL_CHAT"
        skip == IF has_topics THEN 3 ELSE 2
        n == Min(3, Len(history))
        recent == LastN(history, 3)
    IN /\ Len(lines) = skip + n
       /\ lines[1] = <<"duihua zhaiyao:">>
       /\ has_topics <=> (\E k \in DOMAIN lines : lines[k][1] = "zhuyao huati:")
       /\ has_topics => lines[2][1] = "zhuyao huati:"
       /\ lines[skip] = <<"jinqi taolun:">>
       /\ \A i \in 1..n :
             lines[skip + i] = <<Str(i), ". ", "yonghu xunwen", recent[i].intent, "xiangguan wenti">>

\* C6: whenever add_dialog_turn regenerates the summary, the new summary is
\* determined by the history after the call alone, with nothing of the
\* previous summary in it: its numbered lines are the intents of the last
\* min(3, len) turns in order from 1, and it has a key-topics line iff some
\* retained turn has a non-general category.
C6_SummaryFromHistory ==
    (last_call = "add_dialog_turn" /\ Len(dialog_history) >= summary_threshold
                                   /\ Len(dialog_history) >= 2)
        => SummaryReflects(conversation_summary, dialog_history)

\* C6 witness: a summary regenerated over earlier ones, from a history of 4
\* turns of which the first, with an intent of its own, is not among the last 3
C6_Witness ==
    /\ last_call = "add_dialog_turn"
    /\ summary_threshold = 2
    /\ Len(dialog_history) = 4
    /\ \A i \in 2..4 : dialog_history[i].intent # dialog_history[1].intent
    /\ SummaryReflects(conversation_summary, dialog_history)

\* C7: whenever the summary is non-empty, the text get_context_for_prompt
\* returns has no raw recent-turn section: no recent-dialog header and no
\* user or agent line.
C7_NoRawTurnsWithSummary ==
    conversation_summary # <<>> =>
        /\ RawLinesOf(ContextForPrompt) = <<>>
        /\ <<"zuijin duihua:">> \notin Range(Split(ContextForPrompt, NL))

\* C7 witness: a summary and a context entry exist and the prompt context carries both
C7_Witness ==
    /\ conversation_summary # <<>>
    /\ current_context # <<>>
    /\ dialog_history # <<>>
    /\ ContextLinesOf(ContextForPrompt) # <<>>

\* C8: when clear_memory has returned, history, summary and context are all
\* empty, and get_context_for_prompt returns the placeholder.
C8_ClearResetsAll ==
    last_call = "clear_memory" =>
        /\ dialog_history = <<>>
        /\ conversation_summary = <<>>
        /\ current_context = <<>>
        /\ ContextForPrompt = Placeholder

\* C8 witness: clear_memory has returned after turns had been added
C8_Witness ==
    /\ last_call = "clear_memory"
    /\ now >= 2
    /\ ContextForPrompt = Placeholder

\* the user and agent lines of the last min(2, len) turns of a history
ExpectedRawLines(history) ==
    LET recent == LastN(history, 2)
    IN [k \in 1..(2 * Len(recent)) |->
           IF k % 2 = 1 THEN <<"yonghu: ">> \o recent[(k + 1) \div 2].user_input
                        ELSE <<"kefu: ">> \o recent[k \div 2].ai_response]

\* C9: get_context_for_prompt follows the fallback chain: the placeholder iff
\* summary, context and history are all empty; the raw lines of the last
\* min(2, len) turns iff the summary is empty and the history is not; the
\* context listing iff the context is non-empty.
C9_FallbackChain ==
    LET out == ContextForPrompt
        lines == Range(Split(out, NL))
        raw == conversation_summary = <<>> /\ dialog_history # <<>>
    IN /\ (out = Placeholder) <=>
              (conversation_summary = <<>> /\ current_context = <<>> /\ dialog_history = <<>>)
       /\ (<<"zuijin duihua:">> \in lines) <=> raw
       /\ RawLinesOf(out) = IF raw THEN ExpectedRawLines(dialog_history) ELSE <<>>
       /\ (<<"dangqian shangxiawen xinxi:">> \in lines) <=> (current_context # <<>>)
       /\ Len(ContextLinesOf(out)) = Len(current_context)

\* C9 witness: no summary, three turns in the history, a context entry
C9_Witness ==
    /\ conversation_summary = <<>>
    /\ Len(dialog_history) = 3
    /\ dialog_history[1].user_input # dialog_history[3].user_input
    /\ current_context # <<>>
    /\ Len(RawLinesOf(ContextForPrompt)) = 4

\* C10: the summary is non-empty only if at least 2 turns have been added
\* since construction or the last clear_memory.
C10_SummaryNeedsTwoTurns == conversation_summary # <<>> => Len(added) >= 2

\* C10 witness: a summary exists after exactly two turns
C10_Witness ==
    /\ conversation_summary # <<>>
    /\ Len(added) = 2
    /\ summary_threshold <= 1

(***************************************************************************)
(* Reading current_context back.                                           *)
(***************************************************************************)
\* dict.get(key): the values stored under key, at most one
DictGet(d, key) == {d[i][2] : i \in {j \in DOMAIN d : d[j][1] = key}}

\* the text names one of the products _extract_product_info looks for
NamesProduct(text) == \E k \in DOMAIN product_keywords : In(product_keywords[k], text)

\* the text carries a run of ten or more capitals and digits
CarriesOrderNumber(text) == \E i \in DOMAIN text : OrderPatternMatch(text[i]) # {}

\* context[key] is a record made from the turn alone: its query is the
\* turn's text and its other field is a piece of that text
HoldsRecordOf(context, key, turn) ==
    /\ DictGet(context, key) # {}
    /\ \A rec \in DictGet(context, key) :
          /\ {rec[i][1] : i \in DOMAIN rec} = {IF key = "current_product" THEN "product_type" ELSE "order_id", "query"}
          /\ \A i \in DOMAIN rec :
                IF rec[i][1] = "query" THEN rec[i][2] = turn.user_input
                ELSE Len(rec[i][2]) = 1 /\ In(rec[i][2][1], turn.user_input)

\* the turn the last add_dialog_turn call appended
LastAdded == added[Len(added)]

\* C11 as stated, in the case where a record is there to be overwritten:
\* after add_dialog_turn was called with a product inquiry (an order
\* question), a record under current_product (current_order) is a record
\* derived from that turn, and holds no data of an earlier turn.
C11_Original ==
    (last_call = "add_dialog_turn") =>
        /\ (LastAdded.message_type = "PRODUCT_INQUIRY" /\ DictGet(current_context, "current_product") # {})
              => HoldsRecordOf(current_context, "current_product", LastAdded)
        /\ (LastAdded.message_type = "ORDER_QUESTION" /\ DictGet(current_context, "current_order") # {})
              => HoldsRecordOf(current_context, "current_order", LastAdded)

\* C11, amended: an add_dialog_turn call with a product inquiry whose text
\* names a product (an order question whose text carries an order number)
\* overwrites the record under current_product (current_order) by one derived
\* from that turn alone; a product inquiry that names no product and an order
\* question that carries no order number leave current_context as it was.
C11_OverwriteWhenExtracted ==
    [][AddStep =>
          LET turn == added'[Len(added')] IN
          /\ (turn.message_type = "PRODUCT_INQUIRY" /\ NamesProduct(turn.user_input))
                => HoldsRecordOf(current_context', "current_product", turn)
          /\ (turn.message_type = "PRODUCT_INQUIRY" /\ ~NamesProduct(turn.user_input))
                => current_context' = current_context
          /\ (turn.message_type = "ORDER_QUESTION" /\ CarriesOrderNumber(turn.user_input))
                => HoldsRecordOf(current_context', "current_order", turn)
          /\ (turn.message_type = "ORDER_QUESTION" /\ ~CarriesOrderNumber(turn.user_input))
                => current_context' = current_context]_vars

\* a second product inquiry, about another product, has replaced the record
\* of the first
C11_Witness ==
    /\ last_call = "add_dialog_turn"
    /\ Len(added) = 2
    /\ added[1].message_type = "PRODUCT_INQUIRY" /\ NamesProduct(added[1].user_input)
    /\ added[2].message_type = "PRODUCT_INQUIRY" /\ NamesProduct(added[2].user_input)
    /\ added[1].user_input # added[2].user_input
    /\ HoldsRecordOf(current_context, "current_product", added[2])

\* C14: the intent stored with a turn depends on its user_input alone: two
\* stored turns with the same user_input carry equal intents, whatever their
\* message_type; and the message_type stored by a call is the one passed.
C14_IntentOfInputOnly ==
    /\ \A i, j \in DOMAIN dialog_history :
          (dialog_history[i].user_input = dialog_history[j].user_input)
              => dialog_history[i].intent = dialog_history[j].intent
    /\ (last_call = "add_dialog_turn") =>
          \A c \in last_args : dialog_history[Len(dialog_history)].message_type = c.message_type

\* two calls with the same text, one as a product inquiry and one as general
\* chat, for a text whose intent is neither
C14_Witness ==
    /\ last_call = "add_dialog_turn"
    /\ Len(dialog_history) = 2
    /\ dialog_history[1].user_input = dialog_history[2].user_input
    /\ dialog_history[1].message_type = "PRODUCT_INQUIRY"
    /\ dialog_history[2].message_type = "GENERAL_CHAT"
    /\ dialog_history[1].intent = "order_question"
    /\ dialog_history[2].intent = "order_question"
    /\ \E c \in last_args : c.message_type = "GENERAL_CHAT"

(***************************************************************************)
(* QwenEcommerceAgent._classify_message_type.  A call ends by returning a  *)
(* value, <<"return", v>>, or by raising, <<"raise", exception>>.          *)
(* Keywords in pinyin: shangpin, chanpin, yifu, xiezi, jiage,              *)
(* duoshaoqian, guige, xinghao; dingdan, xiadan, goumai, fukuan, zhifu,    *)
(* zhangdan; tuihuo, huanhuo, tuikuan, shouhou, baoxiu, zhiliangwenti;     *)
(* fahuo, kuaidi, wuliu, peisong, yunshu, daohuo, shenmeshihoudao.         *)
(***************************************************************************)
classify_product_keywords ==
    <<"shangpin", "chanpin", "yifu", "xiezi", "jiage", "duoshaoqian", "guige", "xinghao">>

classify_order_keywords == <<"dingdan", "xiadan", "goumai", "fukuan", "zhifu", "zhangdan">>

classify_after_sales_keywords == <<"tuihuo", "huanhuo", "tuikuan", "shouhou", "baoxiu", "zhiliangwenti">>

classify_logistics_keywords ==
    <<"fahuo", "kuaidi", "wuliu", "peisong", "yunshu", "daohuo", "shenmeshihoudao">>

\* MessageType.<name>: the member, or AttributeError when the enum of
\* enhanced_memory.py has no member of that name
MessageTypeAttr(name) ==
    IF name \in MessageType THEN <<"return", name>> ELSE <<"raise", "AttributeError">>

_classify_message_type(text) ==
    LET text_lower == Lower(text) IN
    IF AnyIn(classify_product_keywords, text_lower) THEN MessageTypeAttr("PRODUCT_INQUIRY")
    ELSE IF AnyIn(classify_order_keywords, text_lower) THEN MessageTypeAttr("ORDER_QUESTION")
    ELSE IF AnyIn(classify_after_sales_keywords, text_lower) THEN MessageTypeAttr("AFTER_SALES")
    ELSE IF AnyIn(classify_logistics_keywords, text_lower) THEN MessageTypeAttr("LOGISTICS_QUERY")
    ELSE MessageTypeAttr("GENERAL_CHAT")

\* the longest message, in words
MaxMessageLen == 2

\* two keywords of each table and two words of none
MessageWords ==
    {"jiage", "xinghao", "dingdan", "zhifu", "tuikuan", "baoxiu", "kuaidi", "wuliu", "nihao", "xiexie"}

Messages == UNION {[1..n -> MessageWords] : n \in 0..MaxMessageLen}

\* one call of _classify_message_type
ClassifyMessage ==
    \E text \in Messages :
        /\ message' = text
        /\ classified' = {_classify_message_type(text)}
        /\ UNCHANGED <<prompt, response, reply, memory_vars, registry_vars>>

NextAgent == ClassifyMessage

SpecAgent == InitTurns /\ [][NextAgent]_vars

\* the message has a keyword of the table
Mentions(keywords, text) == \E k \in DOMAIN keywords : \E i \in DOMAIN text : Lower(text)[i] = keywords[k]

\* C12 as stated: for every text the classifier returns, without raising, a
\* member of the enumeration product inquiry, order question, after-sales,
\* logistics query, general chat; a text with a keyword of the logistics table
\* only yields the logistics category and a text with no keyword general chat.
C12_Original ==
    \A outcome \in classified :
        /\ outcome[1] = "return"
        /\ outcome[2] \in {"PRODUCT_INQUIRY", "ORDER_QUESTION", "AFTER_SALES", "LOGISTICS_QUERY", "GENERAL_CHAT"}
        /\ (/\ Mentions(classify_logistics_keywords, message)
            /\ ~Mentions(classify_product_keywords, message)
            /\ ~Mentions(classify_order_keywords, message)
            /\ ~Mentions(classify_after_sales_keywords, message)) => outcome[2] = "LOGISTICS_QUERY"
        /\ (/\ ~Mentions(classify_logistics_keywords, message)
            /\ ~Mentions(classify_product_keywords, message)
            /\ ~Mentions(classify_order_keywords, message)
            /\ ~Mentions(classify_after_sales_keywords, message)) => outcome[2] = "GENERAL_CHAT"

\* the category of the first table, in the order product, order, after-sales,
\* logistics, that has a keyword in the text
FirstMatch(text) ==
    IF Mentions(classify_product_keywords, text) THEN "PRODUCT_INQUIRY"
    ELSE IF Mentions(classify_order_keywords, text) THEN "ORDER_QUESTION"
    ELSE IF Mentions(classify_after_sales_keywords, text) THEN "AFTER_SALES"
    ELSE IF Mentions(classify_logistics_keywords, text) THEN "LOGISTICS_QUERY"
    ELSE "GENERAL_CHAT"

\* C13 as stated: classification is first-match-wins in the order product,
\* order, after-sales, logistics: for every text the classifier returns the
\* category of the first table in this order that has a keyword in the
\* lowercased text.
C13_Original ==
    \A outcome \in classified : outcome = <<"return", FirstMatch(message)>>

(***************************************************************************)
(* export_memory.  A JSON value is <<"str", s>>, <<"arr", items>> or       *)
(* <<"obj", members>>, members being <<key, value>> pairs in order with    *)
(* string keys.  The JSON text is a sequence of atoms; the line break and  *)
(* indentation that indent=2 puts between tokens is the one atom NL.       *)
(***************************************************************************)
JStr(s) == <<"str", s>>

JArr(items) == <<"arr", items>>

JObj(members) == <<"obj", members>>

\* datetime.isoformat() of a clock reading
IsoFormat(t) == <<ToString(t)>>

\* mutant: the entities are left out of the exported turn
TurnDict_without_entities(turn) ==
    JObj(<< << <<"user_input">>, JStr(turn.user_input) >>,
            << <<"ai_response">>, JStr(turn.ai_response) >>,
            << <<"timestamp">>, JStr(IsoFormat(turn.timestamp)) >>,
            << <<"message_type">>, JStr(<<MessageTypeValue(turn.message_type)>>) >>,
            << <<"key_entities">>, JArr(<<>>) >>,
            << <<"intent">>, JStr(<<turn.intent>>) >> >>)

\* lines 214-223: the dict of a turn
TurnDict(turn) ==
    JObj(<< << <<"user_input">>, JStr(turn.user_input) >>,
            << <<"ai_response">>, JStr(turn.ai_response) >>,
            << <<"timestamp">>, JStr(IsoFormat(turn.timestamp)) >>,
            << <<"message_type">>, JStr(<<MessageTypeValue(turn.message_type)>>) >>,
            << <<"key_entities">>, JArr([i \in DOMAIN turn.key_entities |-> JStr(<<turn.key_entities[i]>>)]) >>,
            << <<"intent">>, JStr(<<turn.intent>>) >> >>)

\* current_context as a JSON value: a dict of dicts of strings
ContextDict(context) ==
    JObj([i \in DOMAIN context |->
            << <<context[i][1]>>,
               JObj([j \in DOMAIN context[i][2] |->
                       << <<context[i][2][j][1]>>, JStr(context[i][2][j][2]) >>]) >>])

\* lines 213-227
memory_data(history, summary, context) ==
    JObj(<< << <<"dialog_history">>, JArr([i \in DOMAIN history |-> TurnDict(history[i])]) >>,
            << <<"conversation_summary">>, JStr(summary) >>,
            << <<"current_context">>, ContextDict(context) >> >>)

\* the escape of one atom inside a JSON string
EscapeAtom(a) ==
    CASE a = NL   -> <<"\\", "n">>
      [] a = "\\" -> <<"\\", "\\">>
      [] a = "\"" -> <<"\\", "\"">>
      [] OTHER    -> <<a>>

RECURSIVE Escape(_)
Escape(s) == IF s = <<>> THEN <<>> ELSE EscapeAtom(s[1]) \o Escape(Tail(s))

JsonString(s) == <<"\"">> \o Escape(s) \o <<"\"">>

RECURSIVE json_dumps(_)
\* json.dumps(value, ensure_ascii=False, indent=2)
json_dumps(v) ==
    CASE v[1] = "str" -> JsonString(v[2])
      [] v[1] = "arr" ->
            IF v[2] = <<>> THEN <<"[", "]">>
            ELSE <<"[", NL>> \o Join([i \in DOMAIN v[2] |-> json_dumps(v[2][i])], <<",", NL>>) \o <<NL, "]">>
      [] v[1] = "obj" ->
            IF v[2] = <<>> THEN <<"{", "}">>
            ELSE <<"{", NL>>
                 \o Join([i \in DOMAIN v[2] |-> JsonString(v[2][i][1]) \o <<": ">> \o json_dumps(v[2][i][2])],
                         <<",", NL>>)
                 \o <<NL, "}">>

export_memory == json_dumps(memory_data(dialog_history, conversation_summary, current_context))

(***************************************************************************)
(* json.loads: a parser of the text, returning <<value, next position>>.   *)
(***************************************************************************)
RECURSIVE SkipSpace(_, _)
SkipSpace(t, i) == IF i <= Len(t) /\ t[i] = NL THEN SkipSpace(t, i + 1) ELSE i

RECURSIVE ParseString(_, _, _)
\* i is the position after the opening quote
ParseString(t, i, acc) ==
    IF t[i] = "\"" THEN <<acc, i + 1>>
    ELSE IF t[i] = "\\"
         THEN ParseString(t, i + 2, Append(acc, IF t[i + 1] = "n" THEN NL ELSE t[i + 1]))
         ELSE ParseString(t, i + 1, Append(acc, t[i]))

RECURSIVE ParseValue(_, _)
RECURSIVE ParseItems(_, _, _)
RECURSIVE ParseMembers(_, _, _)

ParseValue(t, i0) ==
    LET i == SkipSpace(t, i0) IN
    IF t[i] = "\"" THEN LET r == ParseString(t, i + 1, <<>>) IN <<JStr(r[1]), r[2]>>
    ELSE IF t[i] = "[" THEN ParseItems(t, i + 1, <<>>)
    ELSE ParseMembers(t, i + 1, <<>>)

ParseItems(t, i0, acc) ==
    LET i == SkipSpace(t, i0) IN
    IF t[i] = "]" THEN <<JArr(acc), i + 1>>
    ELSE IF t[i] = "," THEN ParseItems(t, i + 1, acc)
    ELSE LET r == ParseValue(t, i) IN ParseItems(t, r[2], Append(acc, r[1]))

ParseMembers(t, i0, acc) ==
    LET i == SkipSpace(t, i0) IN
    IF t[i] = "}" THEN <<JObj(acc), i + 1>>
    ELSE IF t[i] = "," THEN ParseMembers(t, i + 1, acc)
    ELSE LET key == ParseString(t, i + 1, <<>>)
             value == ParseValue(t, key[2] + 1)
         IN ParseMembers(t, value[2], Append(acc, <<key[1], value[1]>>))

json_loads(text) == ParseValue(text, 1)[1]

\* obj[key] on a parsed object
Member(obj, key) == (CHOOSE m \in Range(obj[2]) : m[1] = <<key>>)[2]

\* MessageType(value): the member with that value
MessageTypeOfValue(value) == CHOOSE mt \in MessageType : MessageTypeValue(mt) = value

\* the DialogTurn fields read from a parsed turn
TurnOf(obj) ==
    [user_input   |-> Member(obj, "user_input")[2],
     ai_response  |-> Member(obj, "ai_response")[2],
     timestamp    |-> Member(obj, "timestamp")[2],
     message_type |-> MessageTypeOfValue(Member(obj, "message_type")[2][1]),
     key_entities |-> [i \in DOMAIN Member(obj, "key_entities")[2] |-> Member(obj, "key_entities")[2][i][2][1]],
     intent       |-> Member(obj, "intent")[2][1]]

\* the dict of dicts of strings read from a parsed object
ContextOf(obj) ==
    [i \in DOMAIN obj[2] |->
        <<obj[2][i][1][1],
          [j \in DOMAIN obj[2][i][2][2] |-> <<obj[2][i][2][2][j][1][1], obj[2][i][2][2][j][2][2]>>]>>]

\* C15: export_memory is lossless: in every reachable state, parsing the
\* exported text gives back as many turns as are stored, in the stored order,
\* each with the stored user input, reply, timestamp, category, entities and
\* intent, and the stored summary and context.
C15_ExportLossless ==
    LET parsed == json_loads(export_memory)
        turns == Member(parsed, "dialog_history")[2]
    IN /\ Len(turns) = Len(dialog_history)
       /\ \A i \in DOMAIN dialog_history :
             TurnOf(turns[i]) = [dialog_history[i] EXCEPT !.timestamp = IsoFormat(@)]
       /\ Member(parsed, "conversation_summary")[2] = conversation_summary
       /\ ContextOf(Member(parsed, "current_context")) = current_context

\* a memory with two turns in order, one with entities, a summary of several
\* lines and a context of two records has been exported
C15_Witness ==
    /\ Len(dialog_history) >= 2
    /\ dialog_history[1].user_input # dialog_history[2].user_input
    /\ \E i \in DOMAIN dialog_history : dialog_history[i].key_entities # <<>>
    /\ NL \in Range(conversation_summary)
    /\ Len(current_context) = 2
    /\ Len(json_loads(export_memory)[2]) = 3

(***************************************************************************)
(* get_memory_stats.  Slicing counts characters, so every atom of a        *)
(* summary has the length of the text it stands for; the single atom of    *)
(* the text shown for no summary ("wu") has length 1.                      *)
(***************************************************************************)
CharLen(a) ==
    CASE a = "duihua zhaiyao:" -> 5
      [] a = "zhuyao huati:" -> 5
      [] a = "jinqi taolun:" -> 5
      [] a = "yonghu xunwen" -> 4
      [] a = "xiangguan wenti" -> 4
      [] a = ", " -> 2
      [] a = ". " -> 2
      [] a = "product inquiry" -> 15
      [] a = "order question" -> 14
      [] a = "after sales" -> 11
      [] a = "user query" -> 10
      [] a = "general chat" -> 12
      [] a = "product_inquiry" -> 15
      [] a = "order_question" -> 14
      [] a = "logistics_query" -> 15
      [] a = "after_sales" -> 11
      [] a = "general_inquiry" -> 15
      [] OTHER -> 1

RECURSIVE Chars(_)
\* len(s)
Chars(s) == IF s = <<>> THEN 0 ELSE CharLen(s[1]) + Chars(Tail(s))

\* s[:n]: the atoms that fit whole, and of the atom the cut falls in the
\* number of characters kept
Slice(s, n) ==
    LET fit == {k \in 0..Len(s) : Chars(SubSeq(s, 1, k)) <= n}
        k == CHOOSE x \in fit : \A y \in fit : y <= x
    IN [whole |-> SubSeq(s, 1, k),
        part  |-> IF k < Len(s) /\ n > Chars(SubSeq(s, 1, k))
                  THEN {<<s[k + 1], n - Chars(SubSeq(s, 1, k))>>}
                  ELSE {}]

\* line 200: self.conversation_summary[:100] + "..." if self.conversation_summary else "wu";
\* the conditional binds the whole sum, so every summary gets the marker
current_summary(summary) ==
    IF summary # <<>>
    THEN [head |-> Slice(summary, 100), tail |-> <<"...">>]
    ELSE [head |-> Slice(<<"wu">>, 1), tail |-> <<>>]

get_memory_stats ==
    [total_turns     |-> Len(dialog_history),
     current_summary |-> current_summary(conversation_summary),
     context_keys    |-> [i \in DOMAIN current_context |-> current_context[i][1]],
     message_types   |-> [i \in DOMAIN LastN(dialog_history, 5) |->
                             MessageTypeValue(LastN(dialog_history, 5)[i].message_type)]]

\* the number of characters of a sliced text
SliceChars(slice) == Chars(slice.whole) + (IF slice.part = {} THEN 0 ELSE (CHOOSE p \in slice.part : TRUE)[2])

\* C16 as stated, for a memory that has a summary: get_memory_stats reports
\* total_turns = len(dialog_history), the categories of the last
\* min(5, len) turns, and as preview the first 100 characters of the summary,
\* with the ellipsis marker appended only when the summary is longer than 100
\* characters.
C16_Original ==
    (conversation_summary # <<>>) =>
        LET stats == get_memory_stats
            n == Min(5, Len(dialog_history))
        IN /\ stats.total_turns = Len(dialog_history)
           /\ stats.message_types =
                 [i \in 1..n |-> MessageTypeValue(dialog_history[Len(dialog_history) - n + i].message_type)]
           /\ stats.current_summary.head = Slice(conversation_summary, 100)
           /\ SliceChars(stats.current_summary.head) = Min(100, Chars(conversation_summary))
           /\ (stats.current_summary.tail = <<"...">>) <=> (Chars(conversation_summary) > 100)

(***************************************************************************)
(* The tool registry (MCPManager) and the tools' capabilities.  A call of  *)
(* execute() ends as <<"return", dict>> or <<"raise", message>>; a dict is *)
(* a sequence of <<key, value>> pairs with the values written as text.     *)
(***************************************************************************)
\* self.tools[tool_name]
ToolOf(registry, tool_name) == CHOOSE tool \in DictGet(registry, tool_name) : TRUE

\* the keyword arguments callers pass to execute_tool
KwargsChoices ==
    { <<>>,
      << <<"tracking_number", "SF123456789CN">> >>,
      << <<"tracking_number", "ZZ000">> >>,
      << <<"image_path", "photo.png">> >>,
      << <<"param", "x">> >> }

\* LogisticsMCPTool.execute(tracking_number): a call whose keywords are not
\* exactly the one parameter raises TypeError
LogisticsMCPTool_execute(kwargs) ==
    IF DictKeys(kwargs) # {"tracking_number"} THEN {<<"raise", "TypeError">>}
    ELSE LET tracking_number == kwargs[1][2] IN
         IF tracking_number = "SF123456789CN"
         THEN {<<"return", << <<"success", "True">>, <<"tracking_number", tracking_number>>,
                              <<"status", "yunshu zhong">>, <<"current_location", "shanghai zhuanyun zhongxin">>,
                              <<"update_time", "2024-01-15 14:30:00">>, <<"latest_progress", "yi daoda">>,
                              <<"is_sample_data", "True">> >> >>}
         ELSE {<<"return", << <<"success", "True">>, <<"tracking_number", tracking_number>>,
                              <<"status", "chaxun zhong">>, <<"current_location", "shuju chuli zhong">>,
                              <<"update_time", "strftime">>, <<"latest_progress", "zhengzai chaxun">>,
                              <<"is_sample_data", "True">>, <<"note", "shili shuju">> >> >>}

\* AliyunOCRMCPTool.execute(image_path): TypeError on other keywords; what it
\* returns hangs on the file system and the service: no such file, a failed
\* recognition, or the recognised text
AliyunOCRMCPTool_execute(kwargs) ==
    IF DictKeys(kwargs) # {"image_path"} THEN {<<"raise", "TypeError">>}
    ELSE { <<"return", << <<"error", "tupian wenjian bu cunzai">>, <<"success", "False">> >> >>,
           <<"return", << <<"success", "False">>, <<"error", "shibie chucuo">> >> >>,
           <<"return", << <<"success", "True">>, <<"recognized_text", "wenben">>, <<"raw_response", "data">> >> >> }

\* tool.execute(**kwargs)
execute(tool, kwargs) ==
    IF ToolClass(tool) = "LogisticsMCPTool" THEN LogisticsMCPTool_execute(kwargs)
    ELSE AliyunOCRMCPTool_execute(kwargs)

\* the values the methods return, each with its type
PyNone == <<"NoneType", "None">>

PyBool(b) == <<"bool", IF b THEN "True" ELSE "False">>

PyDict(d) == <<"dict", d>>

\* the record of a method call that returned value
Returned(method, tool_name, value) == {[method |-> method, name |-> tool_name, value |-> value]}

\* mutant: the tool is added to the map without a look at the names it holds
register_tool_appends(tool) ==
    /\ tools' = Append(tools, <<ToolName(tool), tool>>)
    /\ returned' = Returned("register_tool", ToolName(tool), PyNone)
    /\ executed' = None
    /\ UNCHANGED <<enabled_tools, is_enabled, environ, probed, held, memory_vars, agent_vars>>

\* MCPManager.register_tool
register_tool(tool) ==
    /\ tools' = DictSet(tools, ToolName(tool), tool)
    /\ returned' = Returned("register_tool", ToolName(tool), PyNone)
    /\ executed' = None
    /\ UNCHANGED <<enabled_tools, is_enabled, environ, probed, held, memory_vars, agent_vars>>

\* mutant: a name that is not registered is listed as enabled
enable_tool_lists_unknown(tool_name) ==
    IF tool_name \in DictKeys(tools)
    THEN LET tool == ToolOf(tools, tool_name) IN
         \E ok \in initialize(tool, environ) :
             /\ is_enabled' = IF ok THEN [is_enabled EXCEPT ![tool] = TRUE] ELSE is_enabled
             /\ probed' = [probed EXCEPT ![tool] = IF ok THEN "ok" ELSE "failed"]
             /\ enabled_tools' = IF ok THEN Append(enabled_tools, tool_name) ELSE enabled_tools
             /\ returned' = Returned("enable_tool", tool_name, PyBool(ok))
             /\ executed' = None
             /\ UNCHANGED <<tools, environ, held, memory_vars, agent_vars>>
    ELSE /\ enabled_tools' = Append(enabled_tools, tool_name)
         /\ returned' = Returned("enable_tool", tool_name, PyBool(FALSE))
         /\ executed' = None
         /\ UNCHANGED <<tools, is_enabled, environ, probed, held, memory_vars, agent_vars>>

\* MCPManager.enable_tool, with MCPTool.enable: the flag is set when
\* initialize() returns True and left as it is when it returns False
enable_tool(tool_name) ==
    IF tool_name \in DictKeys(tools)
    THEN LET tool == ToolOf(tools, tool_name) IN
         \E ok \in initialize(tool, environ) :
             /\ is_enabled' = IF ok THEN [is_enabled EXCEPT ![tool] = TRUE] ELSE is_enabled
             /\ probed' = [probed EXCEPT ![tool] = IF ok THEN "ok" ELSE "failed"]
             /\ enabled_tools' = IF ok THEN Append(enabled_tools, tool_name) ELSE enabled_tools
             /\ returned' = Returned("enable_tool", tool_name, PyBool(ok))
             /\ executed' = None
             /\ UNCHANGED <<tools, environ, held, memory_vars, agent_vars>>
    ELSE /\ returned' = Returned("enable_tool", tool_name, PyBool(FALSE))
         /\ executed' = None
         /\ UNCHANGED <<tools, enabled_tools, is_enabled, environ, probed, held, memory_vars, agent_vars>>

\* list.remove(x): the first occurrence goes
ListRemove(list, x) ==
    LET first == CHOOSE i \in DOMAIN list : list[i] = x /\ \A j \in 1..(i - 1) : list[j] # x
    IN SubSeq(list, 1, first - 1) \o SubSeq(list, first + 1, Len(list))

\* MCPManager.disable_tool, with MCPTool.disable
disable_tool(tool_name) ==
    /\ IF tool_name \in DictKeys(tools)
       THEN /\ is_enabled' = [is_enabled EXCEPT ![ToolOf(tools, tool_name)] = FALSE]
            /\ enabled_tools' = IF tool_name \in Range(enabled_tools)
                                THEN ListRemove(enabled_tools, tool_name)
                                ELSE enabled_tools
       ELSE UNCHANGED <<is_enabled, enabled_tools>>
    /\ returned' = Returned("disable_tool", tool_name, PyNone)
    /\ executed' = None
    /\ UNCHANGED <<tools, environ, probed, held, memory_vars, agent_vars>>

\* mutant: the result of the capability is wrapped before it is returned
ExecuteResult_wrapped(outcome) ==
    IF outcome[1] = "return" THEN PyDict(<< <<"result", "dict">> >>) ELSE PyDict(<< <<"error", outcome[2]>> >>)

\* lines 108-112: the capability's result as it is, or {"error": str(e)}
ExecuteResult(outcome) ==
    IF outcome[1] = "return" THEN PyDict(outcome[2]) ELSE PyDict(<< <<"error", outcome[2]>> >>)

\* mutant: a tool that is registered but not enabled is executed all the same
CanExecute_registered(registry, flags, tool_name) == tool_name \in DictKeys(registry)

\* lines 99-106: the name is registered and its tool object is enabled
CanExecute(registry, flags, tool_name) ==
    tool_name \in DictKeys(registry) /\ flags[ToolOf(registry, tool_name)]

\* MCPManager.execute_tool
execute_tool(tool_name, kwargs) ==
    /\ IF ~CanExecute(tools, is_enabled, tool_name)
       THEN /\ returned' = Returned("execute_tool", tool_name, PyNone)
            /\ executed' = None
       ELSE \E outcome \in execute(ToolOf(tools, tool_name), kwargs) :
               /\ returned' = Returned("execute_tool", tool_name, ExecuteResult(outcome))
               /\ executed' = {[tool |-> ToolOf(tools, tool_name), outcome |-> outcome]}
    /\ UNCHANGED <<tools, enabled_tools, is_enabled, environ, probed, held, memory_vars, agent_vars>>

\* the longest enabled_tools list: enable_tool appends on every success
MaxEnabledTools == 2

RegisterTool == \E tool \in ToolObjects : register_tool(tool)

EnableTool == Len(enabled_tools) < MaxEnabledTools /\ \E tool_name \in ToolNames : enable_tool(tool_name)

DisableTool == \E tool_name \in ToolNames : disable_tool(tool_name)

ExecuteTool == \E tool_name \in ToolNames, kwargs \in KwargsChoices : execute_tool(tool_name, kwargs)

\* the manager and the tools as constructed, under every setting of the
\* configuration identifiers
InitRegistry ==
    /\ max_history = 8
    /\ summary_threshold = 4
    /\ dialog_history = <<>>
    /\ conversation_summary = <<>>
    /\ current_context = <<>>
    /\ now = 0
    /\ added = <<>>
    /\ last_call = "__init__"
    /\ last_args = None
    /\ SinkNew
    /\ queried = None
    /\ AgentIdle
    /\ RegistryNew
    /\ environ \in SUBSET EnvVars

NextRegistry == RegisterTool \/ EnableTool \/ DisableTool \/ ExecuteTool

SpecRegistry == InitRegistry /\ [][NextRegistry]_vars

\* the registry state the claims speak of: the tools map, the enabled list
\* and every tool's flag
registry_state == <<tools, enabled_tools, is_enabled>>

\* C17: enable_tool with a name that is not registered returns False and
\* leaves the tools map, the enabled_tools list and every is_enabled flag as
\* they were.
C17_EnableUnknownRefused ==
    [][\A r \in returned' :
          (r.method = "enable_tool" /\ r.name \notin DictKeys(tools))
              => (r.value = PyBool(FALSE) /\ UNCHANGED registry_state)]_vars

\* enable_tool was called with the name of no tool on a registry that has a
\* tool registered and enabled
C17_Witness ==
    /\ returned = Returned("enable_tool", "weather", PyBool(FALSE))
    /\ "weather" \notin DictKeys(tools)
    /\ tools # <<>>
    /\ enabled_tools # <<>>
    /\ \E tool \in ToolObjects : is_enabled[tool]

\* the name is unknown to the registry, or its tool is not enabled
NotExecutable(tool_name) ==
    \/ tool_name \notin DictKeys(tools)
    \/ \E tool \in DictGet(tools, tool_name) : ~is_enabled[tool]

\* C18 as stated: execute_tool on a name that is unknown or registered but
\* not enabled returns an error result that carries a descriptive error, not
\* an absent or empty value.
C18_Original ==
    \A r \in returned :
        (r.method = "execute_tool" /\ NotExecutable(r.name))
            => /\ r.value[1] = "dict"
               /\ \E i \in DOMAIN r.value[2] : r.value[2][i][1] = "error" /\ r.value[2][i][2] # ""

\* C18, amended: execute_tool on a name that is unknown or registered but not
\* enabled does not raise and returns None, the absent value (the description
\* of the error is printed, not returned); the capability is not invoked and
\* the registry state is unchanged.
C18_ReturnsNone ==
    [][\A r \in returned' :
          (r.method = "execute_tool" /\ NotExecutable(r.name))
              => (r.value = PyNone /\ executed' = None /\ UNCHANGED registry_state)]_vars

\* execute_tool was called on a registered tool that is not enabled, while
\* another tool is enabled
C18_Witness ==
    /\ \E r \in returned :
          /\ r.method = "execute_tool"
          /\ r.name \in DictKeys(tools)
          /\ \E tool \in DictGet(tools, r.name) : ~is_enabled[tool]
          /\ r.value = PyNone
    /\ executed = None
    /\ \E tool \in ToolObjects : is_enabled[tool]

\* C19: for a registered and enabled tool, execute_tool returns the
\* capability's result unchanged when the capability returns, and an
\* error-shaped result, a dict with the one key "error" holding the message,
\* when it raises; the registry state is unchanged in both cases.
C19_ResultPassedThrough ==
    [][\A r \in returned' :
          (r.method = "execute_tool" /\ ~NotExecutable(r.name))
              => /\ executed' # None
                 /\ \A e \in executed' :
                       /\ e.tool \in DictGet(tools, r.name)
                       /\ (e.outcome[1] = "return") => r.value = PyDict(e.outcome[2])
                       /\ (e.outcome[1] = "raise") => r.value = PyDict(<< <<"error", e.outcome[2]>> >>)
                 /\ UNCHANGED registry_state]_vars

\* the capability of an enabled tool raised and execute_tool returned the
\* error-shaped result
C19_Witness ==
    /\ \E r \in returned :
          /\ r.method = "execute_tool"
          /\ ~NotExecutable(r.name)
          /\ r.value = PyDict(<< <<"error", "TypeError">> >>)
    /\ \E e \in executed : e.outcome = <<"raise", "TypeError">>

\* C20 as stated: no registered tool that has a required configuration
\* identifier missing is enabled.  (The identifiers do not change while the
\* program runs, so the ones missing now were missing at enable time.)
C20_Original ==
    \A i \in DOMAIN tools :
        is_enabled[tools[i][2]] => \A k \in DOMAIN required_env_vars(tools[i][2]) :
                                       required_env_vars(tools[i][2])[k] \in environ

\* C20, amended: a tool enters the enabled state only in an enable_tool call
\* for its name whose initialization probe succeeded; an OCR tool enters it
\* only with every required configuration identifier present.  (The
\* logistics tool's probe succeeds with its identifier missing too.)
C20_EnabledOnProbe ==
    [][\A tool \in ToolObjects :
          (~is_enabled[tool] /\ is_enabled'[tool])
              => /\ returned' = Returned("enable_tool", ToolName(tool), PyBool(TRUE))
                 /\ tool \in DictGet(tools, ToolName(tool))
                 /\ probed'[tool] = "ok"
                 /\ (ToolClass(tool) = "AliyunOCRMCPTool")
                       => \A k \in DOMAIN required_env_vars(tool) : required_env_vars(tool)[k] \in environ]_vars

\* the logistics tool is enabled with its identifier missing, next to an OCR
\* tool enabled with its identifier present
C20_Witness ==
    /\ environ = {"ALIYUN_IMAGE_APP_CODE"}
    /\ \E tool \in DictGet(tools, "logistics_tracker") : is_enabled[tool] /\ probed[tool] = "ok"
    /\ \E tool \in DictGet(tools, "aliyun_ocr") : is_enabled[tool] /\ probed[tool] = "ok"

\* MCPManager.get_available_tools: list(self.tools.keys())
get_available_tools == [i \in DOMAIN tools |-> tools[i][1]]

\* MCPManager.get_enabled_tools: self.enabled_tools.copy()
get_enabled_tools == enabled_tools

\* C21 as stated: when enable_tool is called on a registered tool and the
\* initialization probe fails, the call returns False and afterwards the tool
\* is disabled: its is_enabled flag is false and its name is not in the
\* enabled list, whatever its state before the call.
C21_Original ==
    \A r \in returned :
        (/\ r.method = "enable_tool"
         /\ r.name \in DictKeys(tools)
         /\ \E tool \in DictGet(tools, r.name) : probed[tool] = "failed")
            => /\ r.value = PyBool(FALSE)
               /\ \A tool \in DictGet(tools, r.name) : ~is_enabled[tool]
               /\ r.name \notin Range(get_enabled_tools)

\* C22 as stated, its first half: after disable_tool(name) on a registered
\* tool the tool is disabled and name does not appear in get_enabled_tools().
C22_Original ==
    \A r \in returned :
        (r.method = "disable_tool" /\ r.name \in DictKeys(tools))
            => /\ \A tool \in DictGet(tools, r.name) : ~is_enabled[tool]
               /\ r.name \notin Range(get_enabled_tools)

\* a list holds no element twice
NoDuplicates(list) == \A i, j \in DOMAIN list : (list[i] = list[j]) => i = j

\* C23: register_tool is idempotent by name: after register_tool(tool) the
\* tool stored under its name is that tool, whatever was stored there before,
\* the tools stored under other names are the same, get_available_tools()
\* lists each name once, and registering the tool that is already stored
\* under the name leaves the registry state as it was.
C23_RegisterByName ==
    [][\A tool \in ToolObjects :
          register_tool(tool)
              => /\ DictGet(tools', ToolName(tool)) = {tool}
                 /\ \A name \in ToolNames \ {ToolName(tool)} : DictGet(tools', name) = DictGet(tools, name)
                 /\ NoDuplicates(get_available_tools')
                 /\ Range(get_available_tools') = Range(get_available_tools) \cup {ToolName(tool)}
                 /\ (tool \in DictGet(tools, ToolName(tool))) => UNCHANGED registry_state]_vars

\* the second OCR tool object has been registered over the first, which had
\* been enabled, next to the logistics tool
C23_Witness ==
    /\ \E r \in returned : r.method = "register_tool" /\ r.name = "aliyun_ocr"
    /\ DictGet(tools, "aliyun_ocr") = {"ocr_tool_main"}
    /\ is_enabled["ocr_tool"]
    /\ "logistics_tracker" \in DictKeys(tools)
    /\ get_available_tools \in {<<"aliyun_ocr", "logistics_tracker">>, <<"logistics_tracker", "aliyun_ocr">>}

\* C27 as stated: in every reachable state a name appears in
\* get_enabled_tools() if and only if it is registered and the tool
\* registered under it has its is_enabled flag set.
C27_Original ==
    \A name \in ToolNames :
        (name \in Range(get_enabled_tools))
            <=> (name \in DictKeys(tools) /\ \A tool \in DictGet(tools, name) : is_enabled[tool])

\* C28 as stated: get_enabled_tools() never contains the same name twice.
C28_Original == NoDuplicates(get_enabled_tools)

\* C29: execute_tool invokes a tool's capability only when the name is
\* registered and the tool stored under it has its is_enabled flag set at the
\* time of the call, and then it is the capability of that tool; in every
\* other case, and in every other method, no capability is invoked.
C29_InvokedOnlyIfEnabled ==
    [][\A r \in returned' :
          /\ (executed' # None)
                <=> (/\ r.method = "execute_tool"
                     /\ r.name \in DictKeys(tools)
                     /\ \A tool \in DictGet(tools, r.name) : is_enabled[tool])
          /\ \A e \in executed' : e.tool \in DictGet(tools, r.name)]_vars

\* execute_tool was called with a name that is in the enabled list while the
\* tool now registered under it is not enabled: no capability was invoked
C29_Witness ==
    /\ \E r \in returned :
          /\ r.method = "execute_tool"
          /\ r.name \in Range(enabled_tools)
          /\ \E tool \in DictGet(tools, r.name) : ~is_enabled[tool]
    /\ executed = None
    /\ \E tool \in ToolObjects : is_enabled[tool]

\* ---------------------------------------------------------------------
\* auto_save_to_file: the snapshot of the memory written to a file

\* how the body of the try block can end, by the call that raised: makedirs
\* of the backup directory, open of the file, write of the text; the
\* prints write to the console the whole program writes to and are taken
\* to succeed
SinkOutcomes == {"written", "makedirs raised", "open raised", "write raised"}

\* filepath as the caller gives it: None for the default path
FilepathArgs == {None} \cup {{path} : path \in SavePaths}

\* the path written: the default one under ./backup when none is given
SavePath(filepath) ==
    IF filepath = None THEN "backup/memory_backup.json" ELSE CHOOSE path \in filepath : TRUE

\* makedirs is called for the default path only
CanEndAs(filepath, outcome) == outcome = "makedirs raised" => filepath = None

\* mutant: the success value returned on every path
SaveResult_always_true(outcome) == "True"

\* return True at the end of the try block, return False in the handler
SaveResult(outcome) == IF outcome = "written" THEN "True" ELSE "False"

\* the file after the call: the text of export_memory when written, cut
\* to nothing when open('w') succeeded and the write raised, as it was
\* when the file was never opened
FileAfter(old, outcome) ==
    CASE outcome = "written" -> {export_memory}
      [] outcome = "write raised" -> {<<>>}
      [] OTHER -> old

auto_save_to_file(filepath, outcome) ==
    /\ CanEndAs(filepath, outcome)
    /\ files' = [files EXCEPT ![SavePath(filepath)] = FileAfter(@, outcome)]
    /\ sink_writes' = sink_writes + 1
    /\ save_returned' = {[filepath |-> SavePath(filepath), value |-> SaveResult(outcome)]}
    /\ last_call' = "auto_save_to_file"
    /\ UNCHANGED <<max_history, summary_threshold, dialog_history, conversation_summary,
                   current_context, now, added, last_args, queried, agent_vars, registry_vars>>

\* the number of auto_save_to_file calls explored in one run
MaxSaves == 2

\* the number of add_dialog_turn calls explored between the saves
SaveClock == 1

AutoSaveToFile ==
    /\ sink_writes < MaxSaves
    /\ \E filepath \in FilepathArgs, outcome \in SinkOutcomes : auto_save_to_file(filepath, outcome)

AddDialogTurnSave ==
    /\ now < SaveClock
    /\ \E c \in Calls : add_dialog_turn(c)
    /\ UNCHANGED <<agent_vars, registry_vars>>

NextSave == AddDialogTurnSave \/ clear_memory \/ AutoSaveToFile

\* a memory whose owner adds turns, clears it and saves it to files
SpecSave == InitExport /\ [][NextSave]_vars

\* C25: a call of auto_save_to_file ends by returning True or False and
\* never by an exception; when it returns True the file at the path holds
\* the snapshot of the memory as it is, when it returns False the sink
\* failed and the file is as it was or cut to nothing; either way
\* dialog_history, conversation_summary and current_context are as before
\* the call, no other file is touched and the sink is tried once.
C25_SaveNeverRaises ==
    [][last_call' = "auto_save_to_file" /\ sink_writes' # sink_writes =>
        /\ \E r \in save_returned' :
            /\ r.value \in {"True", "False"}
            /\ r.value = "True" => files'[r.filepath] = {export_memory}
            /\ r.value = "False" =>
                 files'[r.filepath] \in {files[r.filepath], {<<>>}}
            /\ \A path \in SavePaths \ {r.filepath} : files'[path] = files[path]
        /\ UNCHANGED <<dialog_history, conversation_summary, current_context>>
        /\ sink_writes' = sink_writes + 1]_vars

\* a save that failed after one that succeeded, with turns in the memory
C25_Witness ==
    /\ last_call = "auto_save_to_file"
    /\ sink_writes = 2
    /\ dialog_history # <<>>
    /\ \E r \in save_returned : r.value = "False" /\ files[r.filepath] = {<<>>}
    /\ \E path \in SavePaths : files[path] # None /\ files[path] # {<<>>}

\* ---------------------------------------------------------------------
\* QwenEcommerceAgent.process_message: one message of a session

\* order_pattern of _extract_key_entities, [A-Z0-9]{8,}: the matches in a
\* word; all three order numbers of the model have 8 characters or more
EntityOrderMatch(w) ==
    CASE w = "AB12345678" -> <<"AB12345678">>
      [] w = "CD87654321" -> <<"CD87654321">>
      [] w = "AB123456" -> <<"AB123456">>
      [] OTHER -> <<>>

entity_product_keywords == <<"Txu", "kuzi", "xiezi", "shouji", "diannao", "huazhuangpin">>

\* size_patterns, by what re.findall returns for a word: the whole match of
\* a pattern without a group, the group of a pattern with one
size_patterns ==
    << [w \in {"XLma"} |-> "XLma"],
       [w \in {"6cun"} |-> "6"],
       [w \in {"hongse", "lanse", "heise", "baise"} |-> w] >>

RECURSIVE Flatten(_)
\* the lists of a list of lists, one after the other
Flatten(lists) == IF lists = <<>> THEN <<>> ELSE lists[1] \o Flatten(Tail(lists))

\* re.findall(pattern, user_input) for a pattern of size_patterns
FindAll(pattern, user_input) ==
    Flatten([i \in DOMAIN user_input |->
                IF user_input[i] \in DOMAIN pattern THEN <<pattern[user_input[i]]>> ELSE <<>>])

_extract_key_entities(user_input) ==
    LET order_matches == Flatten([i \in DOMAIN user_input |-> EntityOrderMatch(user_input[i])])
        orders == [i \in DOMAIN order_matches |-> "dingdanhao:" \o order_matches[i]]
        products == Flatten([k \in DOMAIN entity_product_keywords |->
                        IF In(entity_product_keywords[k], user_input)
                        THEN <<"shangpin:" \o entity_product_keywords[k]>> ELSE <<>>])
        sizes == Flatten([p \in DOMAIN size_patterns |-> FindAll(size_patterns[p], user_input)])
    IN orders \o products \o sizes

\* mutant: a prompt that leaves the conversation context out
_build_qwen_prompt_without_context(user_input, history, summary, context) ==
    [context_info |-> Placeholder, user_input |-> user_input]

\* the two parts of the prompt that vary: the role text, the knowledge
\* base and the reply principles around them are the same in every prompt
_build_qwen_prompt(user_input, history, summary, context) ==
    [context_info |-> get_context_for_prompt(history, summary, context), user_input |-> user_input]

Whitespace == {" ", NL}

\* str.strip
Strip(text) ==
    LET solid == {i \in DOMAIN text : text[i] \notin Whitespace} IN
    IF solid = {} THEN <<>>
    ELSE SubSeq(text, CHOOSE i \in solid : \A j \in solid : i <= j,
                      CHOOSE i \in solid : \A j \in solid : j <= i)

\* line 200: the apology that carries the status code
ErrorCodeApology(status_code) ==
    <<"baoqian, xitong zanshi wufa xiangying nin de wenti. cuowu daima:", ToString(status_code)>>

\* line 223: the reply of the except clause
TechnicalApology ==
    <<"feichang baoqian, wo xianzai yudao le yixie jishu wenti, qing nin shaohou zai shi, huozhe lianxi rengong kefu wei nin fuwu.">>

\* how Generation.call can end: a response with a status code and, in its
\* output, a text or none, or an exception (raises names it)
Responses ==
    { [raises |-> "", status_code |-> 200, text |-> {<<"nin hao">>}],
      [raises |-> "", status_code |-> 200, text |-> {<<" ", "you huo", NL>>}],
      [raises |-> "", status_code |-> 200, text |-> None],
      [raises |-> "", status_code |-> 500, text |-> None],
      [raises |-> "", status_code |-> 429, text |-> {<<"Requests rate limit exceeded">>}],
      [raises |-> "ConnectionError", status_code |-> 0, text |-> None] }

\* mutant: a status other than 200 raised as an error
ReplyOf_raises_on_error(api) ==
    IF api.raises # "" THEN <<"raise", <<api.raises>> >>
    ELSE IF api.status_code = 200
    THEN IF api.text = None THEN <<"raise", <<"AttributeError">> >>
         ELSE <<"return", Strip(CHOOSE t \in api.text : TRUE)>>
    ELSE <<"raise", <<"HTTPError">> >>

\* lines 188-200: the call and the reply taken from its response;
\* response.output.text.strip() raises AttributeError when there is no text
ReplyOf(api) ==
    IF api.raises # "" THEN <<"raise", <<api.raises>> >>
    ELSE IF api.status_code = 200
    THEN IF api.text = None THEN <<"raise", <<"AttributeError">> >>
         ELSE <<"return", Strip(CHOOSE t \in api.text : TRUE)>>
    ELSE <<"return", ErrorCodeApology(api.status_code)>>

\* mutant: except AttributeError in place of except Exception
try_except_attribute_error(outcome) ==
    IF outcome = <<"raise", <<"AttributeError">> >> THEN <<"return", TechnicalApology>> ELSE outcome

\* try: ... except Exception: return the apology
try_except(outcome) ==
    IF outcome[1] = "raise" THEN <<"return", TechnicalApology>> ELSE outcome

\* the messages of a session: small talk, a product with a colour and a
\* short order number, an order, a logistics question
SessionMessages ==
    { <<"nihao">>, <<"hongse", "xiezi", "AB123456">>, <<"dingdan", "AB12345678">>, <<"kuaidi">> }

\* a call that raised has ended the session: nothing in the repository
\* catches around process_message
SessionAlive == \A r \in reply : r[1] = "return"

process_message(user_input, api) ==
    LET message_type == _classify_message_type(user_input)
        key_entities == _extract_key_entities(user_input)
        built == message_type[1] = "return"
        body == IF built THEN ReplyOf(api) ELSE <<"raise", <<message_type[2]>> >>
    IN /\ SessionAlive
       /\ message' = user_input
       /\ classified' = {message_type}
       /\ prompt' = IF built
                    THEN {_build_qwen_prompt(user_input, dialog_history, conversation_summary,
                                             current_context)}
                    ELSE None
       /\ response' = IF built THEN {api} ELSE None
       /\ reply' = {try_except(body)}
       /\ IF body[1] = "return"
          THEN add_dialog_turn([user_input |-> user_input, ai_response |-> body[2],
                                message_type |-> message_type[2], key_entities |-> {key_entities}])
          ELSE UNCHANGED memory_vars
       /\ UNCHANGED registry_vars

\* the number of turns a session adds
SessionClock == 2

ProcessMessage ==
    /\ now < SessionClock
    /\ \E user_input \in SessionMessages, api \in Responses : process_message(user_input, api)

\* clear_session is clear_memory of the agent's memory
NextSession == ProcessMessage \/ clear_memory

\* an agent as constructed, with its memory of 8 turns summarised from 4
SpecSession == InitTurns /\ [][NextSession]_vars

\* the replies process_message gives: the text of a response, stripped, the
\* apology with the status code, the apology of the except clause
ReplyTexts ==
    {Strip(t) : t \in UNION {api.text : api \in Responses}}
        \cup {ErrorCodeApology(api.status_code) : api \in Responses} \cup {TechnicalApology}

\* C24: every call of process_message ends by returning a reply text and
\* never by an exception, whether the classification raised, the reply
\* call raised, the response had no text or a status other than 200, or
\* all went well; so the session is alive for the next message.
C24_AlwaysReplies ==
    \A r \in reply : r[1] = "return" /\ r[2] \in ReplyTexts /\ SessionAlive

\* the reply call raised on a message after one that was answered
C24_Witness ==
    /\ added # <<>>
    /\ \E api \in response : api.raises = "ConnectionError"
    /\ reply = {<<"return", TechnicalApology>>}

\* the classification raised and the apology was returned
C24_WitnessClassification ==
    /\ classified = {<<"raise", "AttributeError">>}
    /\ reply = {<<"return", TechnicalApology>>}

\* the context a process_message step adds its turn to is the one its
\* prompt was built from
PromptThenTurn(user_input, api) ==
    process_message(user_input, api) /\ prompt' # None /\ Len(added') = Len(added) + 1

\* C26 as stated: the context in the prompt of message n is the context of
\* the memory after the turn of message n was added.
C26_Original ==
    [][\A user_input \in SessionMessages, api \in Responses :
          PromptThenTurn(user_input, api) =>
              \A pr \in prompt' : pr.context_info =
                  get_context_for_prompt(dialog_history', conversation_summary', current_context')]_vars

\* C26: the context in the prompt of message n is the context of the
\* memory before the turn of message n is added, that is after the turns
\* of the messages before it; the turn of message n, with the reply made
\* from that prompt, is added afterwards.
C26_ContextBeforeTurn ==
    [][\A user_input \in SessionMessages, api \in Responses :
          PromptThenTurn(user_input, api) =>
              /\ \A pr \in prompt' :
                    /\ pr.user_input = user_input
                    /\ pr.context_info = ContextForPrompt
              /\ LastAdded'.user_input = user_input
              /\ reply' = {<<"return", LastAdded'.ai_response>>}]_vars

\* the second message of a session answered: its prompt showed the first
\* turn and its own turn is the last of the memory
C26_Witness ==
    /\ Len(added) >= 2
    /\ \E pr \in prompt :
          /\ pr.context_info # Placeholder
          /\ pr.context_info # ContextForPrompt
          /\ LastAdded.user_input = pr.user_input

\* the call, the attribute or the method of the body of process_message
\* that raises for these inputs, if one does
Raises(user_input, api) ==
    \/ _classify_message_type(user_input)[1] = "raise"
    \/ api.raises # ""
    \/ api.status_code = 200 /\ api.text = None

\* C30: a process_message call in which the classification or the reply
\* call raises, or the response has no text to strip, adds no turn and
\* leaves history, summary and context as they were; a call whose response
\* has a status other than 200 adds exactly one turn, of this message,
\* whose ai_response is the apology with that status code; a call that
\* succeeds adds exactly one turn, of this message and the stripped text.
C30_TurnPerOutcome ==
    [][\A user_input \in SessionMessages, api \in Responses :
          process_message(user_input, api) =>
              IF Raises(user_input, api)
              THEN UNCHANGED <<dialog_history, conversation_summary, current_context, added>>
              ELSE /\ Len(added') = Len(added) + 1
                   /\ SubSeq(added', 1, Len(added)) = added
                   /\ LastAdded'.user_input = user_input
                   /\ LastAdded'.ai_response =
                         IF api.status_code = 200 THEN Strip(CHOOSE t \in api.text : TRUE)
                         ELSE <<"baoqian, xitong zanshi wufa xiangying nin de wenti. cuowu daima:",
                                ToString(api.status_code)>>
                   /\ dialog_history'[Len(dialog_history')] = LastAdded']_vars

\* the turn with the apology for status 500 is the second of a session
C30_Witness ==
    /\ \E api \in response : api.status_code = 500
    /\ Len(added) >= 2
    /\ LastAdded.ai_response = ErrorCodeApology(500)
    /\ dialog_history # <<>>

\* a call that raised: no turn of its message
C30_WitnessRaised ==
    /\ \E api \in response : api.raises # ""
    /\ added # <<>>
    /\ LastAdded.user_input # message

\* C31: between two clear_memory calls an add_dialog_turn call never
\* leaves the history shorter than it found it; so a call made when a
\* summary exists leaves a summary, and that summary is generated from the
\* history after the call: it is never the summary of an earlier history.
C31_SummaryNeverStale ==
    [][AddStep =>
          /\ Len(dialog_history') >= Len(dialog_history)
          /\ conversation_summary # <<>> =>
                /\ conversation_summary' # <<>>
                /\ IsGeneratedFrom(conversation_summary', dialog_history')]_vars

\* a call made on a full history with a summary: the oldest turn went, the
\* length stayed, and the summary is the one of the turns now retained
C31_Witness ==
    /\ last_call = "add_dialog_turn"
    /\ max_history = 2
    /\ Len(added) = 3
    /\ Len(dialog_history) = 2
    /\ added[1].intent # added[3].intent
    /\ conversation_summary # <<>>
    /\ IsGeneratedFrom(conversation_summary, dialog_history)
    /\ ~IsGeneratedFrom(conversation_summary, SubSeq(added, 1, 2))

\* the context key _update_context writes for a turn of the category, if any
ContextKeyOf(message_type) ==
    CASE message_type = "PRODUCT_INQUIRY" -> {"current_product"}
      [] message_type = "ORDER_QUESTION" -> {"current_order"}
      [] OTHER -> {}

\* C32: an add_dialog_turn call, whether or not it evicts a turn, removes
\* no entry of current_context and changes none but the one of the turn it
\* adds: every key present stays, the keys are among current_product and
\* current_order, an entry is as before or is the record of the added turn
\* under the key of its category, and a turn of a category other than
\* product inquiry and order question leaves the context as it was.
C32_ContextOutlivesTurns ==
    [][AddStep =>
          /\ DictKeys(current_context) \subseteq DictKeys(current_context')
          /\ DictKeys(current_context') \subseteq {"current_product", "current_order"}
          /\ \A key \in DictKeys(current_context') :
                \/ /\ key \in DictKeys(current_context)
                   /\ DictGet(current_context', key) = DictGet(current_context, key)
                \/ /\ key \in ContextKeyOf(LastAdded'.message_type)
                   /\ HoldsRecordOf(current_context', key, LastAdded')
          /\ ContextKeyOf(LastAdded'.message_type) = {} => current_context' = current_context]_vars

\* an entry whose turn was evicted: the product record of the first turn is
\* in the context while the first turn is no longer in the history, and the
\* last call added a turn of another category
C32_Witness ==
    /\ last_call = "add_dialog_turn"
    /\ Len(added) >= 2
    /\ Len(dialog_history) < Len(added)
    /\ added[1].message_type = "PRODUCT_INQUIRY"
    /\ HoldsRecordOf(current_context, "current_product", added[1])
    /\ \A i \in DOMAIN dialog_history : dialog_history[i].user_input # added[1].user_input
    /\ ContextKeyOf(LastAdded.message_type) = {}

\* C33: a memory whose summary_threshold is above its max_history never
\* has a summary, whatever turns are added: the history is cut to
\* max_history before its length is compared with the threshold.  So the
\* text of get_context_for_prompt has no summary header and its raw lines
\* are those of the last min(2, len) retained turns, under the
\* recent-dialog header whenever a turn is retained.
C33_NoSummaryAboveMaxHistory ==
    summary_threshold > max_history =>
        LET out == ContextForPrompt
            lines == Range(Split(out, NL))
        IN /\ conversation_summary = <<>>
           /\ <<"duihua zhaiyao:">> \notin lines
           /\ RawLinesOf(out) = ExpectedRawLines(dialog_history)
           /\ (<<"zuijin duihua:">> \in lines) <=> (dialog_history # <<>>)

\* three turns added to EnhancedMemory(2, 3): the first evicted, no summary,
\* the two retained turns shown raw
C33_Witness ==
    /\ max_history = 2
    /\ summary_threshold = 3
    /\ Len(added) = 3
    /\ last_call = "add_dialog_turn"
    /\ conversation_summary = <<>>
    /\ Len(RawLinesOf(ContextForPrompt)) = 4

\* ---------------------------------------------------------------------
\* The intent and the category of the same message

\* a keyword of each table the two classifiers share, one product keyword
\* only the category classifier has and one only the intent classifier has
IntentWords == {"xinghao", "chima", "dingdan", "kuaidi", "tuihuo", "nihao"}

\* the messages of one or two of these words
IntentTexts == [{1} -> IntentWords] \cup [{1, 2} -> IntentWords]

\* a reply and a refusal
IntentResponses == {api \in Responses : api.text # None /\ Len(CHOOSE t \in api.text : TRUE) = 1}

\* the number of turns added
IntentClock == 1

ProcessIntentMessage ==
    /\ now < IntentClock
    /\ \E user_input \in IntentTexts, api \in IntentResponses : process_message(user_input, api)

NextIntent == ProcessIntentMessage \/ clear_memory

\* an agent that is sent messages of one or two keywords
SpecIntent == InitTurns /\ [][NextIntent]_vars

IntentLabels == {"product_inquiry", "order_question", "logistics_query", "after_sales", "general_inquiry"}

\* the label of the first table, in the order product, order, logistics,
\* after-sales, that has a keyword in the text
FirstIntent(text) ==
    IF Mentions(ecommerce_keywords.product_related, text) THEN "product_inquiry"
    ELSE IF Mentions(ecommerce_keywords.order_related, text) THEN "order_question"
    ELSE IF Mentions(ecommerce_keywords.logistics_related, text) THEN "logistics_query"
    ELSE IF Mentions(ecommerce_keywords.after_sales, text) THEN "after_sales"
    ELSE "general_inquiry"

\* a logistics and an after-sales keyword and no product or order keyword
\* of either classifier
LogisticsAndAfterSales(text) ==
    /\ Mentions(ecommerce_keywords.logistics_related, text)
    /\ Mentions(ecommerce_keywords.after_sales, text)
    /\ ~Mentions(ecommerce_keywords.product_related, text)
    /\ ~Mentions(ecommerce_keywords.order_related, text)
    /\ ~Mentions(classify_product_keywords, text)
    /\ ~Mentions(classify_order_keywords, text)

\* C34: the intent stored with a turn is one of the 5 labels, the label of
\* the first table with a keyword in the text in the order product, order,
\* logistics, after-sales; so for a text with a logistics and an
\* after-sales keyword and no product or order keyword the stored intent
\* is logistics_query while the category, given by the category
\* classifier, is after-sales.
C34_IntentFirstMatch ==
    \A i \in DOMAIN added :
        /\ added[i].intent \in IntentLabels
        /\ added[i].intent = FirstIntent(added[i].user_input)
        /\ LogisticsAndAfterSales(added[i].user_input) =>
              /\ added[i].intent = "logistics_query"
              /\ added[i].message_type = "AFTER_SALES"
              /\ message = added[i].user_input => classified = {<<"return", "AFTER_SALES">>}

\* the turn of a message with the after-sales keyword before the logistics
\* one, stored with the intent logistics_query and the category after-sales
C34_Witness ==
    /\ added # <<>>
    /\ LastAdded.user_input = <<"tuihuo", "kuaidi">>
    /\ LastAdded.intent = "logistics_query"
    /\ LastAdded.message_type = "AFTER_SALES"
    /\ classified = {<<"return", "AFTER_SALES">>}

\* ---------------------------------------------------------------------
\* The queries of the memory and of the manager

PyStr(s) == <<"str", s>>

PyList(l) == <<"list", l>>

\* the memory and the manager share no field, so a run exercises one of
\* them: the memory while no method of the manager was called, the manager
\* while no method of the memory was called
ManagerUntouched == returned = None /\ held = None

MemoryUntouched == last_call = "__init__"

\* get_context_for_prompt(): the text, the memory as it was
GetContextForPrompt ==
    /\ ManagerUntouched
    /\ queried' = {[method |-> "get_context_for_prompt", value |-> PyStr(ContextForPrompt)]}
    /\ last_call' = "get_context_for_prompt"
    /\ UNCHANGED <<max_history, summary_threshold, dialog_history, conversation_summary,
                   current_context, now, added, last_args, sink_vars, agent_vars, registry_vars>>

\* get_memory_stats(): a new dict of new lists
GetMemoryStats ==
    /\ ManagerUntouched
    /\ queried' = {[method |-> "get_memory_stats", value |-> PyDict(get_memory_stats)]}
    /\ last_call' = "get_memory_stats"
    /\ UNCHANGED <<max_history, summary_threshold, dialog_history, conversation_summary,
                   current_context, now, added, last_args, sink_vars, agent_vars, registry_vars>>

\* export_memory(): the JSON text
ExportMemory ==
    /\ ManagerUntouched
    /\ queried' = {[method |-> "export_memory", value |-> PyStr(export_memory)]}
    /\ last_call' = "export_memory"
    /\ UNCHANGED <<max_history, summary_threshold, dialog_history, conversation_summary,
                   current_context, now, added, last_args, sink_vars, agent_vars, registry_vars>>

\* mutant: return self.enabled_tools, the list of the manager itself
ListCopy_same_object(list) == [items |-> list, aliased |-> TRUE]

\* list.copy(): a new list object with the same items
ListCopy(list) == [items |-> list, aliased |-> FALSE]

\* the items of a list object a caller holds: those of enabled_tools when
\* it is that very list
ItemsOf(object) == IF object.aliased THEN enabled_tools ELSE object.items

\* list(self.tools.keys()): a new list object
GetAvailableTools ==
    /\ MemoryUntouched
    /\ held' = {[items |-> get_available_tools, aliased |-> FALSE]}
    /\ returned' = Returned("get_available_tools", "", PyList(get_available_tools))
    /\ executed' = None
    /\ UNCHANGED <<tools, enabled_tools, is_enabled, environ, probed, memory_vars, agent_vars>>

GetEnabledTools ==
    /\ MemoryUntouched
    /\ held' = {ListCopy(get_enabled_tools)}
    /\ returned' = Returned("get_enabled_tools", "", PyList(get_enabled_tools))
    /\ executed' = None
    /\ UNCHANGED <<tools, enabled_tools, is_enabled, environ, probed, memory_vars, agent_vars>>

\* what a caller can do to a list: clear() it, append() a name to it
Mutated(list, mutation) ==
    IF mutation = "clear" THEN <<>> ELSE Append(list, "weather")

\* a caller changes the list it got; a list that is the manager's own
\* changes for the manager too
MutateHeld ==
    \E object \in held, mutation \in {"clear", "append"} :
        LET items == Mutated(ItemsOf(object), mutation) IN
        /\ MemoryUntouched
        /\ "weather" \notin Range(ItemsOf(object))
        /\ held' = {[object EXCEPT !.items = items]}
        /\ enabled_tools' = IF object.aliased THEN items ELSE enabled_tools
        /\ UNCHANGED <<tools, is_enabled, environ, returned, executed, probed, memory_vars, agent_vars>>

\* the number of add_dialog_turn calls explored between the queries
QueryClock == 2

AddDialogTurnQuery ==
    /\ ManagerUntouched
    /\ now < QueryClock
    /\ \E c \in Calls : add_dialog_turn(c)
    /\ UNCHANGED <<agent_vars, registry_vars>>

ClearMemoryQuery == ManagerUntouched /\ clear_memory

RegisterToolQuery == MemoryUntouched /\ RegisterTool

EnableToolQuery == MemoryUntouched /\ EnableTool

DisableToolQuery == MemoryUntouched /\ DisableTool

NextQuery ==
    \/ AddDialogTurnQuery
    \/ ClearMemoryQuery
    \/ GetContextForPrompt
    \/ GetMemoryStats
    \/ ExportMemory
    \/ RegisterToolQuery
    \/ EnableToolQuery
    \/ DisableToolQuery
    \/ GetAvailableTools
    \/ GetEnabledTools
    \/ MutateHeld

\* a memory or a manager that is changed and queried, the manager by a
\* caller that changes the lists it gets
SpecQuery == InitExport /\ [][NextQuery]_vars

\* C35: get_context_for_prompt, get_memory_stats and export_memory return
\* their value and leave dialog_history, conversation_summary and
\* current_context as they were; get_available_tools and
\* get_enabled_tools return the names and leave tools, enabled_tools and
\* the flags as they were; and whatever a caller then does to the list it
\* got leaves them as they were too.
C35_QueriesArePure ==
    [][/\ (GetContextForPrompt \/ GetMemoryStats \/ ExportMemory) =>
             /\ UNCHANGED <<dialog_history, conversation_summary, current_context>>
             /\ UNCHANGED registry_state
             /\ \E q \in queried' :
                   q.value \in {PyStr(ContextForPrompt), PyDict(get_memory_stats), PyStr(export_memory)}
       /\ (GetAvailableTools \/ GetEnabledTools) =>
             /\ UNCHANGED registry_state
             /\ UNCHANGED <<dialog_history, conversation_summary, current_context>>
             /\ \E r \in returned' : r.value \in {PyList(get_available_tools), PyList(get_enabled_tools)}
             /\ \E object \in held' : ItemsOf(object)' \in {get_available_tools, get_enabled_tools}
       /\ MutateHeld => UNCHANGED registry_state]_vars

\* a caller cleared the list get_enabled_tools gave it and the manager
\* still lists the tool
C35_Witness ==
    /\ \E r \in returned : r.method = "get_enabled_tools" /\ r.value # PyList(<<>>)
    /\ \E object \in held : ItemsOf(object) = <<>>
    /\ enabled_tools # <<>>

\* a memory with a turn and a context entry, queried for its statistics
C35_WitnessMemory ==
    /\ \E q \in queried : q.method = "get_memory_stats" /\ q.value = PyDict(get_memory_stats)
    /\ dialog_history # <<>>
    /\ current_context # <<>>

====
